---- MODULE Spec2Model ----
(***************************************************************************)
(* State-machine model of the nildb core: the schema-scoped data engine    *)
(* (data.services.ts), the ownership guard (nuc-cmd-tree.ts) and the       *)
(* nilcomm command processor (nilcomm.service.ts).                         *)
(*                                                                         *)
(* Effects are modelled by their outcome: a value of the form              *)
(* [ok |-> TRUE, ...] (E.succeed) or [ok |-> FALSE, err |-> tag] (E.fail). *)
(* A pipe of E.flatMap steps stops at the first failing step, so the       *)
(* environment's choice of fault is one record naming the step that fails  *)
(* and the error it fails with.                                            *)
(***************************************************************************)
EXTENDS Integers, Sequences, FiniteSets, TLC

\* ------------------------------------------------------------ bounds
MaxId == 2
MaxBatch == 2
MaxRefCount == 2

\* ------------------------------------------------------------ universe
\* UUIDs (document ids, mapping ids, query ids) are drawn from one space.
Ids == 1..MaxId
OwnerDids == {"did:nil:a", "did:nil:b"}
NodeDid == "did:nil:node"
\* The DID of the reserved nilcomm account: did:nil:<config.nilcommPublicKey>.
NilcommDid == "did:nil:nilcomm"
Dids == OwnerDids \cup {NodeDid, NilcommDid}
CommitRevealSchemaId == "CR"
\* The id of the commit-reveal query template; tenants' queries are in Ids.
CommitRevealQueryId == 0
QueryIds == Ids \cup {CommitRevealQueryId}
UserSchemaIds == {"S1", "S2"}
UnknownSchemaId == "S0"
SchemaIds == UserSchemaIds \cup {CommitRevealSchemaId, UnknownSchemaId}
Refs == [schema : UserSchemaIds \cup {CommitRevealSchemaId}, id : Ids]
\* The error an injected store fault fails with (CollectionNotFoundError is
\* what the repositories answer when the collection is absent).
StoreErrors == {"DatabaseError"}
NoFault == [step |-> "none", err |-> "", owner |-> ""]

VARIABLES
  schemas,   \* schema registry: schema id -> documentType, "none" when absent
  coll,      \* backing collections: schema id -> set of [id, owner] documents
  users,     \* user collection: DID -> [exists, data], data a multiset of Refs
  last,      \* the last data-engine call and the result returned to its caller
  builders,  \* builders collection: DID -> [exists, id, name, schemas, queries]
  queries,   \* queries collection: query id -> owner DID, "none" when absent
  guard,     \* the last ownership check: what was asked and the verdict
  handled,   \* the last command handled: the command, its outcome, its events
  deliveries, \* StoreSecret invocations in flight: slot -> position and payload
  secrets,   \* share fields of the commit-reveal records: record id -> shares
  cache,     \* ctx.cache.builders: DID -> the cached builder document
  dir,       \* the last builder-directory call and what it did
  boot,      \* the last run of ensureNilcommAccount and what it created
  indexes,   \* indexes of the backing collections: schema id -> set of indexes
  idx,       \* the last index call and the result returned to its caller
  flights,   \* cached finds and deletes in flight: slot -> position and DID
  calls      \* createRecords and deleteRecords in flight: slot -> position

dataVars == <<schemas, coll, users, last>>

deliveryVars == <<deliveries, secrets>>

directoryVars == <<cache, dir>>

indexVars == <<indexes, idx>>

moreVars == <<indexVars, flights, calls>>

extVars == <<deliveryVars, directoryVars, boot, moreVars>>

vars == <<schemas, coll, users, last, builders, queries, guard, handled, extVars>>

\* ------------------------------------------------------------ results
Fail(e) == [ok |-> FALSE, err |-> e]

NoSchemaDoc == [id |-> "", documentType |-> "none"]

NoUser == [exists |-> FALSE, data |-> [r \in Refs |-> 0]]

\* The elements of a sequence.
Range(s) == {s[i] : i \in DOMAIN s}

\* ------------------------------------------------------------ repositories

\* SchemasRepository.findOne(ctx, {_id}): checkCollectionExists, findOne,
\* null -> DocumentNotFoundError.
SchemasFindOne(sid, f) ==
  IF f.step = "findSchema" THEN [ok |-> FALSE, err |-> f.err, doc |-> NoSchemaDoc]
  ELSE IF schemas[sid] = "none"
       THEN [ok |-> FALSE, err |-> "DocumentNotFoundError", doc |-> NoSchemaDoc]
       ELSE [ok |-> TRUE, err |-> "",
             doc |-> [id |-> sid, documentType |-> schemas[sid]]]

\* validateData(schema, data): the validation engine's verdict on the batch;
\* a record's field valid is the engine's verdict on that record.
ValidateData(doc, data) ==
  IF \A i \in DOMAIN data : data[i].valid
  THEN [ok |-> TRUE, err |-> "", data |-> data]
  ELSE [ok |-> FALSE, err |-> "DataValidationError", data |-> <<>>]

\* An insert into a collection that keeps no unique _id.
DataInsertUnchecked(c, doc, data, owner, f) ==
  [ok |-> TRUE, err |-> "",
   coll |-> [c EXCEPT ![doc.id] =
               @ \cup {[id |-> data[i].id, owner |-> owner] : i \in DOMAIN data}],
   created |-> [i \in DOMAIN data |-> data[i].id]]

\* DataRepository.insert(ctx, document, data, owner, acl): bulk insert into the
\* schema's backing collection, stamping _owner.  The store keeps _id unique in
\* a collection: a colliding batch is rejected.
DataInsert(c, doc, data, owner, f) ==
  LET ids == {data[i].id : i \in DOMAIN data}
      collides == \/ Cardinality(ids) # Len(data)
                  \/ \E d \in c[doc.id] : d.id \in ids
  IN IF f.step = "insert" THEN [ok |-> FALSE, err |-> f.err, coll |-> c, created |-> <<>>]
     ELSE IF collides
          THEN [ok |-> FALSE, err |-> "DatabaseError", coll |-> c, created |-> <<>>]
          ELSE [ok |-> TRUE, err |-> "",
                coll |-> [c EXCEPT ![doc.id] =
                            @ \cup {[id |-> i, owner |-> owner] : i \in ids}],
                created |-> [i \in DOMAIN data |-> data[i].id]]

\* UserRepository.upsert(ctx, owner, schemaId, ids, permissions): creates the
\* UserDocument when absent and appends one {schema, id} reference per id.
UserUpsert(u, owner, sid, ids, f) ==
  IF f.step = "upsert" THEN [ok |-> FALSE, err |-> f.err, users |-> u]
  ELSE [ok |-> TRUE, err |-> "",
        users |-> [u EXCEPT ![owner] =
           [exists |-> TRUE,
            data |-> [r \in Refs |->
               IF r.schema = sid
               THEN @.data[r] + Cardinality({i \in DOMAIN ids : ids[i] = r.id})
               ELSE @.data[r]]]]]

\* UserRepository.removeData(ctx, owner, ids): the call passes the owner and
\* the document ids only (data.services.ts:132), so the references pulled from
\* the owner's UserDocument are those whose id is among ids.
UserRemoveData(u, owner, ids, f) ==
  IF f.step = "removeData" /\ f.owner = owner
  THEN [ok |-> FALSE, err |-> f.err, users |-> u]
  ELSE [ok |-> TRUE, err |-> "",
        users |-> IF u[owner].exists
                  THEN [u EXCEPT ![owner].data =
                          [r \in Refs |-> IF r.id \in ids THEN 0 ELSE @[r]]]
                  ELSE u]

\* The documents of a collection a filter matches; a filter is a set of _ids.
Matching(c, sid, filter) == {d \in c[sid] : d.id \in filter}

\* DataRepository.findMany(ctx, schema, filter)
DataFindMany(c, sid, filter, f) ==
  IF f.step = "findMany" THEN [ok |-> FALSE, err |-> f.err, docs |-> {}]
  ELSE IF schemas[sid] = "none"
       THEN [ok |-> FALSE, err |-> "CollectionNotFoundError", docs |-> {}]
       ELSE [ok |-> TRUE, err |-> "", docs |-> Matching(c, sid, filter)]

\* DataRepository.deleteMany(ctx, schema, filter)
DataDeleteMany(c, sid, filter, f) ==
  IF f.step = "deleteMany" THEN [ok |-> FALSE, err |-> f.err, coll |-> c, deletedCount |-> 0]
  ELSE IF schemas[sid] = "none"
       THEN [ok |-> FALSE, err |-> "CollectionNotFoundError", coll |-> c, deletedCount |-> 0]
       ELSE [ok |-> TRUE, err |-> "",
             coll |-> [c EXCEPT ![sid] = @ \ Matching(c, sid, filter)],
             deletedCount |-> Cardinality(Matching(c, sid, filter))]

\* DataRepository.flushCollection(ctx, schema)
DataFlush(c, sid, f) ==
  IF f.step = "flush" THEN [ok |-> FALSE, err |-> f.err, coll |-> c, deletedCount |-> 0]
  ELSE IF schemas[sid] = "none"
       THEN [ok |-> FALSE, err |-> "CollectionNotFoundError", coll |-> c, deletedCount |-> 0]
       ELSE [ok |-> TRUE, err |-> "",
             coll |-> [c EXCEPT ![sid] = {}],
             deletedCount |-> Cardinality(c[sid])]

\* ------------------------------------------------------------ data engine

\* A createRecords that hands the batch to the insert without validating it.
BindDataUnvalidated(document, cmd) == [ok |-> TRUE, err |-> "", data |-> cmd.data]

\* E.bind("data", ...): the batch validated against the resolved schema.
BindData(document, cmd) == ValidateData(document, cmd.data)

\* A createRecords that registers references whatever the documentType.
IsOwnedAlways(document) == TRUE

\* document.documentType === "owned"
IsOwned(document) == document.documentType = "owned"

\* createRecords(ctx, command): resolve the schema, validate the batch, bulk
\* insert, and for an owned schema register the created ids with the owner.
\* A createRecords that reports success without touching the store.
CreateRecordsSkipped(st, cmd, f) ==
  [coll |-> st.coll, users |-> st.users, created |-> <<>>, ok |-> TRUE, err |-> ""]

\* A createRecords that answers with the insert's result whatever the upsert
\* of the owner's references did.
CreateRecordsUpsertIgnored(st, cmd, f) ==
  LET document == SchemasFindOne(cmd.schemaId, f)
      nothing == [coll |-> st.coll, users |-> st.users, created |-> <<>>]
  IN IF ~document.ok THEN nothing @@ Fail(document.err)
     ELSE LET data == BindData(document.doc, cmd)
     IN IF ~data.ok THEN nothing @@ Fail(data.err)
        ELSE LET result == DataInsert(st.coll, document.doc, data.data, cmd.owner, f)
        IN IF ~result.ok THEN nothing @@ Fail(result.err)
           ELSE LET up == UserUpsert(st.users, cmd.owner, cmd.schemaId,
                                     result.created, f)
                IN [coll |-> result.coll,
                    users |-> IF IsOwned(document.doc) /\ up.ok THEN up.users ELSE st.users,
                    created |-> result.created, ok |-> TRUE, err |-> ""]

CreateRecords(st, cmd, f) ==
  LET document == SchemasFindOne(cmd.schemaId, f)
      nothing == [coll |-> st.coll, users |-> st.users, created |-> <<>>]
  IN IF ~document.ok THEN nothing @@ Fail(document.err)
     ELSE LET data == BindData(document.doc, cmd)
     IN IF ~data.ok THEN nothing @@ Fail(data.err)
        ELSE LET result == DataInsert(st.coll, document.doc, data.data, cmd.owner, f)
        IN IF ~result.ok THEN nothing @@ Fail(result.err)
           ELSE IF IsOwned(document.doc)
                THEN LET up == UserUpsert(st.users, cmd.owner, cmd.schemaId,
                                          result.created, f)
                     IN IF ~up.ok
                        THEN [coll |-> result.coll, users |-> st.users,
                              created |-> <<>>] @@ Fail(up.err)
                        ELSE [coll |-> result.coll, users |-> up.users,
                              created |-> result.created, ok |-> TRUE, err |-> ""]
                ELSE [coll |-> result.coll, users |-> st.users,
                      created |-> result.created, ok |-> TRUE, err |-> ""]

\* groupByOwner(documents): owner -> the ids of the owner's documents.
GroupByOwner(documents) ==
  [o \in {d.owner : d \in documents} |-> {d.id : d \in {x \in documents : x.owner = o}}]

\* deleteAllUserDataReferences(documents): E.forEach over the owners in the
\* order of Object.entries, one removeData per owner, stopping at the first
\* failure.  order lists the owners still to be handled.
RECURSIVE DeleteAllUserDataReferences(_, _, _, _)
DeleteAllUserDataReferences(u, groups, order, f) ==
  IF order = <<>> THEN [ok |-> TRUE, err |-> "", users |-> u]
  ELSE LET r == UserRemoveData(u, Head(order), groups[Head(order)], f)
       IN IF ~r.ok THEN r
          ELSE DeleteAllUserDataReferences(r.users, groups, Tail(order), f)

\* deleteRecords with its last two steps exchanged: the documents are deleted
\* before the owners' references are removed.
DeleteRecordsDocumentsFirst(st, cmd, order, f) ==
  LET found == DataFindMany(st.coll, cmd.schema, cmd.filter, f)
      nothing == [coll |-> st.coll, users |-> st.users, deletedCount |-> 0]
  IN IF ~found.ok THEN nothing @@ Fail(found.err)
     ELSE LET del == DataDeleteMany(st.coll, cmd.schema, cmd.filter, f)
     IN IF ~del.ok THEN nothing @@ Fail(del.err)
        ELSE LET refs == DeleteAllUserDataReferences(st.users, GroupByOwner(found.docs),
                                                     order, f)
             IN [coll |-> del.coll, users |-> refs.users,
                 deletedCount |-> del.deletedCount, ok |-> refs.ok, err |-> refs.err]

\* deleteRecords(ctx, command): find the matching documents, remove their
\* owners' references, delete the documents.
DeleteRecords(st, cmd, order, f) ==
  LET found == DataFindMany(st.coll, cmd.schema, cmd.filter, f)
      nothing == [coll |-> st.coll, users |-> st.users, deletedCount |-> 0]
  IN IF ~found.ok THEN nothing @@ Fail(found.err)
     ELSE LET refs == DeleteAllUserDataReferences(st.users, GroupByOwner(found.docs),
                                                  order, f)
     IN IF ~refs.ok
        THEN [coll |-> st.coll, users |-> refs.users, deletedCount |-> 0] @@ Fail(refs.err)
        ELSE LET del == DataDeleteMany(st.coll, cmd.schema, cmd.filter, f)
             IN [coll |-> del.coll, users |-> refs.users,
                 deletedCount |-> del.deletedCount, ok |-> del.ok, err |-> del.err]

\* A flushCollection that also drops every reference to the schema's documents.
FlushCollectionWithReferences(st, cmd, f) ==
  LET r == DataFlush(st.coll, cmd.schema, f)
  IN [coll |-> r.coll,
      users |-> IF r.ok
                THEN [d \in DOMAIN st.users |->
                        [st.users[d] EXCEPT !.data =
                           [ref \in Refs |-> IF ref.schema = cmd.schema THEN 0 ELSE @[ref]]]]
                ELSE st.users,
      deletedCount |-> r.deletedCount, ok |-> r.ok, err |-> r.err]

\* flushCollection(ctx, command)
FlushCollection(st, cmd, f) ==
  LET r == DataFlush(st.coll, cmd.schema, f)
  IN [coll |-> r.coll, users |-> st.users, deletedCount |-> r.deletedCount,
      ok |-> r.ok, err |-> r.err]

\* ------------------------------------------------------------ inputs
Records == [id : Ids, valid : BOOLEAN]
Batches == UNION {[1..n -> Records] : n \in 1..MaxBatch}
Filters == SUBSET Ids
CreateFaults == {NoFault} \cup
  [step : {"findSchema", "insert", "upsert"}, err : StoreErrors, owner : {""}]
DeleteFaults == {NoFault} \cup
  [step : {"findMany", "deleteMany"}, err : StoreErrors, owner : {""}] \cup
  [step : {"removeData"}, err : StoreErrors, owner : OwnerDids]
FlushFaults == {NoFault} \cup [step : {"flush"}, err : StoreErrors, owner : {""}]

\* The orders in which Object.entries can list the owners of a group.
Orders(S) == {o \in UNION {[1..n -> S] : n \in 0..Cardinality(S)} :
                 Range(o) = S /\ Len(o) = Cardinality(S)}

St == [coll |-> coll, users |-> users]

\* n is the length of the batch of a createRecords call, invalid the number of
\* its records the validation engine rejects.
NoCall == [op |-> "none", n |-> 0, invalid |-> 0, ok |-> TRUE, err |-> "",
           created |-> <<>>, deletedCount |-> 0]

\* No reference multiplicity runs past the model's bound.
WithinBound(u) == \A d \in Dids : \A r \in Refs : u[d].data[r] <= MaxRefCount

\* ------------------------------------------------------------ actions
\* One call of createRecords with a fault drawn from F.
CreateRecordsStep(F) ==
  \E sid \in UserSchemaIds \cup {UnknownSchemaId}, owner \in OwnerDids,
     data \in Batches, f \in F :
    LET r == CreateRecords(St, [schemaId |-> sid, owner |-> owner, data |-> data], f)
    IN /\ WithinBound(r.users)
       /\ coll' = r.coll
       /\ users' = r.users
       /\ last' = [NoCall EXCEPT !.op = "createRecords", !.n = Len(data),
                     !.invalid = Cardinality({i \in DOMAIN data : ~data[i].valid}),
                     !.ok = r.ok, !.err = r.err, !.created = r.created]
       /\ UNCHANGED <<schemas, builders, queries, guard, handled, extVars>>

\* One call of deleteRecords with a fault drawn from F.
DeleteRecordsStep(F) ==
  \E sid \in UserSchemaIds \cup {UnknownSchemaId}, filter \in Filters, f \in F :
    \E order \in Orders({d.owner : d \in Matching(coll, sid, filter)}) :
      LET r == DeleteRecords(St, [schema |-> sid, filter |-> filter], order, f)
      IN /\ coll' = r.coll
         /\ users' = r.users
         /\ last' = [NoCall EXCEPT !.op = "deleteRecords", !.ok = r.ok, !.err = r.err,
                       !.deletedCount = r.deletedCount]
         /\ UNCHANGED <<schemas, builders, queries, guard, handled, extVars>>

\* One call of flushCollection with a fault drawn from F.
FlushCollectionStep(F) ==
  \E sid \in UserSchemaIds \cup {UnknownSchemaId}, f \in F :
    LET r == FlushCollection(St, [schema |-> sid], f)
    IN /\ coll' = r.coll
       /\ users' = r.users
       /\ last' = [NoCall EXCEPT !.op = "flushCollection", !.ok = r.ok, !.err = r.err,
                     !.deletedCount = r.deletedCount]
       /\ UNCHANGED <<schemas, builders, queries, guard, handled, extVars>>

\* The calls against a store that does not fail.
CreateRecordsCall == CreateRecordsStep({NoFault})

DeleteRecordsCall == DeleteRecordsStep({NoFault})

\* The calls against a store that may fail at any step.
CreateRecordsFaulty == CreateRecordsStep(CreateFaults)

DeleteRecordsFaulty == DeleteRecordsStep(DeleteFaults)

FlushCollectionCall == FlushCollectionStep(FlushFaults)

\* ------------------------------------------------------------ ownership guard
\* UUID.toString(): the canonical text of a UUID, one text per UUID.
UuidToString(u) == <<"uuid", u>>

Allowed == [ok |-> TRUE, err |-> "", type |-> "", id |-> <<>>, user |-> ""]

Denied(type, id, user) ==
  [ok |-> FALSE, err |-> "ResourceAccessDeniedError", type |-> type,
   id |-> UuidToString(id), user |-> user]

\* enforceQueryOwnership(builder, query)
EnforceQueryOwnership(builder, query) ==
  IF \E q \in builder.queries : UuidToString(q) = UuidToString(query)
  THEN Allowed
  ELSE Denied("query", query, builder.id)

\* enforceSchemaOwnership(builder, schema)
EnforceSchemaOwnership(builder, schema) ==
  IF \E x \in builder.schemas : UuidToString(x) = UuidToString(schema)
  THEN Allowed
  ELSE Denied("schema", schema, builder.id)

\* A guard that compares the document id and forgets the schema.
EnforceDataOwnershipIdOnly(user, documentId, schema) ==
  IF \E r \in Refs : /\ user.data[r] >= 1
                     /\ UuidToString(r.id) = UuidToString(documentId)
  THEN Allowed
  ELSE Denied("schema", documentId, user.id)

\* enforceDataOwnership(user, documentId, schema): some entry of user.data has
\* both the document id and the schema.
EnforceDataOwnership(user, documentId, schema) ==
  IF \E r \in Refs : /\ user.data[r] >= 1
                     /\ UuidToString(r.id) = UuidToString(documentId)
                     /\ UuidToString(r.schema) = UuidToString(schema)
  THEN Allowed
  ELSE Denied("schema", documentId, user.id)

\* The UserDocument of a DID as the guard receives it.
UserDocument(o) == [id |-> o, data |-> users[o].data]

NoBuilder(d) == [exists |-> FALSE, id |-> d, name |-> "", schemas |-> {}, queries |-> {}]

NoGuard == [fn |-> "none", subject |-> "", schema |-> "", id |-> 0,
            ok |-> TRUE, err |-> ""]

\* The subjects the guard is asked about.
GuardDids == {"did:nil:a"}

EnforceSchemaOwnershipCall ==
  \E b \in GuardDids, sid \in SchemaIds :
    /\ builders[b].exists
    /\ LET r == EnforceSchemaOwnership(builders[b], sid)
       IN guard' = [NoGuard EXCEPT !.fn = "schema", !.subject = b, !.schema = sid,
                      !.ok = r.ok, !.err = r.err]
    /\ UNCHANGED <<dataVars, builders, queries, handled, extVars>>

EnforceQueryOwnershipCall ==
  \E b \in GuardDids, q \in Ids :
    /\ builders[b].exists
    /\ LET r == EnforceQueryOwnership(builders[b], q)
       IN guard' = [NoGuard EXCEPT !.fn = "query", !.subject = b, !.id = q,
                      !.ok = r.ok, !.err = r.err]
    /\ UNCHANGED <<dataVars, builders, queries, handled, extVars>>

EnforceDataOwnershipCall ==
  \E o \in GuardDids, i \in Ids, sid \in SchemaIds :
    /\ users[o].exists
    /\ LET r == EnforceDataOwnership(UserDocument(o), i, sid)
       IN guard' = [NoGuard EXCEPT !.fn = "data", !.subject = o, !.schema = sid,
                      !.id = i, !.ok = r.ok, !.err = r.err]
    /\ UNCHANGED <<dataVars, builders, queries, handled, extVars>>

\* A schema id joins or leaves a builder's schemas (schema registration and
\* deletion); the guard's last verdict was about the sets as they were.
BuilderAddSchema ==
  \E b \in GuardDids, sid \in UserSchemaIds :
    /\ builders[b].exists
    /\ builders' = [builders EXCEPT ![b].schemas = @ \cup {sid}]
    /\ guard' = NoGuard
    /\ UNCHANGED <<dataVars, queries, handled, extVars>>

BuilderRemoveSchema ==
  \E b \in GuardDids, sid \in UserSchemaIds :
    /\ builders[b].exists
    /\ builders' = [builders EXCEPT ![b].schemas = @ \ {sid}]
    /\ guard' = NoGuard
    /\ UNCHANGED <<dataVars, queries, handled, extVars>>

\* A query id joins or leaves a builder's queries.
BuilderAddQuery ==
  \E b \in GuardDids, q \in Ids :
    /\ builders[b].exists
    /\ builders' = [builders EXCEPT ![b].queries = @ \cup {q}]
    /\ guard' = NoGuard
    /\ UNCHANGED <<dataVars, queries, handled, extVars>>

BuilderRemoveQuery ==
  \E b \in GuardDids, q \in Ids :
    /\ builders[b].exists
    /\ builders' = [builders EXCEPT ![b].queries = @ \ {q}]
    /\ guard' = NoGuard
    /\ UNCHANGED <<dataVars, queries, handled, extVars>>

\* UserRepository.upsert and removeData on their own: a reference joins or
\* leaves a user's data.
UserUpsertCall ==
  \E o \in GuardDids, sid \in UserSchemaIds, i \in Ids :
    LET r == UserUpsert(users, o, sid, <<i>>, NoFault)
    IN /\ WithinBound(r.users)
       /\ users' = r.users
       /\ guard' = NoGuard
       /\ UNCHANGED <<schemas, coll, last, builders, queries, handled, extVars>>

UserRemoveDataCall ==
  \E o \in GuardDids, i \in Ids :
    LET r == UserRemoveData(users, o, {i}, NoFault)
    IN /\ users' = r.users
       /\ guard' = NoGuard
       /\ UNCHANGED <<schemas, coll, last, builders, queries, handled, extVars>>

\* ------------------------------------------------------------ message bus
Event(type, id, cause) == [type |-> type, mappingId |-> id, cause |-> cause]

\* publish(eventType, payload): the bus accepts the event, or refuses it with
\* the error named by refusal ("" when it accepts).  attempts is the log of
\* the publish attempts of one handler invocation.
Publish(attempts, event, refusal) ==
  [ok |-> refusal = "", err |-> refusal,
   attempts |-> Append(attempts, [event |-> event, accepted |-> refusal = ""])]

\* NilCommMqService.emit*Event(ctx, id, ...): the event carries the id it is
\* given as its mappingId.
EmitSecretStoredEvent(attempts, mappingId, refusal) ==
  Publish(attempts, Event("SecretStored", mappingId, ""), refusal)

EmitStoreSecretFailedEvent(attempts, storeId, cause, refusal) ==
  Publish(attempts, Event("StoreSecretFailed", storeId, cause), refusal)

EmitQueryExecutionCompletedEvent(attempts, mappingId, refusal) ==
  Publish(attempts, Event("QueryExecutionCompleted", mappingId, ""), refusal)

EmitQueryExecutionFailedEvent(attempts, queryId, cause, refusal) ==
  Publish(attempts, Event("QueryExecutionFailed", queryId, cause), refusal)

\* ------------------------------------------------------------ identity
\* A public key as a command carries it: the builder it names, its length and
\* whether all its characters are alphanumeric.
DidKeyLen == 66

OwnerPks ==
  [key : {"a", "b", "node"}, len : {DidKeyLen}, alnum : {TRUE}] \cup
  [key : {"a"}, len : {DidKeyLen - 1}, alnum : {TRUE}] \cup
  [key : {"a"}, len : {DidKeyLen}, alnum : {FALSE}]

\* `did:nil:${pk}`
DidText(pk) == [prefix |-> "did:nil:", body |-> pk]

\* The DID a well-formed text denotes.
DidOf(text) ==
  CASE text.body.key = "a" -> "did:nil:a"
    [] text.body.key = "b" -> "did:nil:b"
    [] text.body.key = "node" -> NodeDid

\* DidSchema.parse(text): /^did:nil:([a-zA-Z0-9]{66})$/, throwing a ZodError
\* on a text that does not match.
DidSchemaParse(text) ==
  IF text.prefix = "did:nil:" /\ text.body.len = DidKeyLen /\ text.body.alnum
  THEN [ok |-> TRUE, err |-> "", did |-> DidOf(text)]
  ELSE [ok |-> FALSE, err |-> "ZodError", did |-> ""]

\* ------------------------------------------------------------ collaborators
\* A decryption that accepts every share.
DecryptAlways(share) == [ok |-> TRUE, err |-> ""]

\* payload.share.decrypt(nodeSecretKey) inside E.try: a share that does not
\* decrypt fails with Error("Share decryption failed").
Decrypt(share) ==
  IF share = "sealed" THEN [ok |-> TRUE, err |-> ""]
  ELSE [ok |-> FALSE, err |-> "Share decryption failed"]

\* BuilderService.find(ctx, did) = BuilderRepository.findOneOrganization
\* over the builders collection store; reads counts the findOne calls
\* issued (none when checkCollectionExists fails).
FindOneOrganization(store, did, f) ==
  IF f.step = "findBuilder"
  THEN [ok |-> FALSE, err |-> f.err, builder |-> NoBuilder(did),
        reads |-> IF f.err = "CollectionNotFoundError" THEN 0 ELSE 1]
  ELSE IF ~store[did].exists
       THEN [ok |-> FALSE, err |-> "DocumentNotFoundError", builder |-> NoBuilder(did),
             reads |-> 1]
       ELSE [ok |-> TRUE, err |-> "", builder |-> store[did], reads |-> 1]

\* QueryService.findQueries(ctx, owner): the queries whose owner is the DID.
FindQueries(owner, f) ==
  IF f.step = "findQueries" THEN [ok |-> FALSE, err |-> f.err, queries |-> {}]
  ELSE [ok |-> TRUE, err |-> "", queries |-> {q \in QueryIds : queries[q] = owner}]

\* NilCommRepositoryService.runCommitRevealAggregation(ctx, query, variables)
RunCommitRevealAggregation(query, f) ==
  IF f.step = "aggregation" THEN [ok |-> FALSE, err |-> f.err]
  ELSE [ok |-> TRUE, err |-> ""]

\* ------------------------------------------------------------ command processor
\* E.tapError(f): on a failure e the effect f(e) runs and the failure e is
\* kept; when f(e) itself fails, its error is the one that remains.
TapError(e, tapped) == IF tapped.ok THEN e ELSE tapped.err

\* publishDappStoreSecretFailed(ctx, storeId, cause)
PublishDappStoreSecretFailed(attempts, storeId, cause, refusal) ==
  EmitStoreSecretFailedEvent(attempts, storeId, cause, refusal)

\* publishDappQueryExecutionFailed(ctx, queryId, cause)
PublishDappQueryExecutionFailed(attempts, queryId, cause, refusal) ==
  EmitQueryExecutionFailedEvent(attempts, queryId, cause, refusal)

\* The refusal of the success event's publication a fault asks for.
PublishRefusal(f) == IF f.step = "publish" THEN f.err ELSE ""

\* processDappStoreSecret(ctx, payload): decrypt the share, createRecords of one
\* record keyed by mappingId in the commit-reveal schema with the node as
\* owner, emit SecretStored; E.tapError publishes StoreSecretFailed.
\* env.valid is the validation engine's verdict on the record, env.fault the
\* step that fails, env.refusal the bus's answer to the failure event.
ProcessDappStoreSecret(st, payload, env) ==
  LET share == Decrypt(payload.share)
      record == CreateRecords(st, [schemaId |-> CommitRevealSchemaId,
                                   owner |-> NodeDid,
                                   data |-> <<[id |-> payload.mappingId,
                                               valid |-> env.valid]>>],
                              env.fault)
      stored == EmitSecretStoredEvent(<<>>, payload.mappingId,
                                      PublishRefusal(env.fault))
      pipeline ==
        IF ~share.ok
        THEN [ok |-> FALSE, err |-> share.err, coll |-> st.coll,
              users |-> st.users, attempts |-> <<>>]
        ELSE IF ~record.ok
             THEN [ok |-> FALSE, err |-> record.err, coll |-> record.coll,
                   users |-> record.users, attempts |-> <<>>]
             ELSE [ok |-> stored.ok, err |-> stored.err, coll |-> record.coll,
                   users |-> record.users, attempts |-> stored.attempts]
      failed == PublishDappStoreSecretFailed(pipeline.attempts, payload.mappingId,
                                             pipeline.err, env.refusal)
  IN IF pipeline.ok
     THEN [coll |-> pipeline.coll, users |-> pipeline.users, outcome |-> "ok",
           err |-> "", pipelineErr |-> "", attempts |-> pipeline.attempts]
     ELSE [coll |-> pipeline.coll, users |-> pipeline.users, outcome |-> "fail",
           err |-> TapError(pipeline.err, failed), pipelineErr |-> pipeline.err,
           attempts |-> failed.attempts]

\* processDappStartQueryExecution(ctx, payload): parse the requester's DID
\* (before the pipe is built: a ZodError is thrown to the caller), find the
\* builder, its queries, the query with payload.queryId, run the aggregation,
\* emit QueryExecutionCompleted; E.tapError publishes QueryExecutionFailed.
\* A selection that takes the requested query wherever it is.
SelectQueryAnywhere(found, queryId) == [ok |-> TRUE, err |-> "", query |-> queryId]

\* queries.find((q) => q._id.equals(queryId)), failing with
\* DocumentNotFoundError when the builder's queries do not hold it.
SelectQuery(found, queryId) ==
  IF \E q \in found : q = queryId
  THEN [ok |-> TRUE, err |-> "", query |-> queryId]
  ELSE [ok |-> FALSE, err |-> "DocumentNotFoundError", query |-> 0]

ProcessDappStartQueryExecution(payload, env) ==
  LET queryId == payload.queryId
      nilcommPk == DidSchemaParse(DidText(payload.ownerPk))
      builder == FindOneOrganization(builders, nilcommPk.did, env.fault)
      found == FindQueries(builder.builder.id, env.fault)
      query == SelectQuery(found.queries, queryId)
      result == RunCommitRevealAggregation(query.query, env.fault)
      aggregated == IF builder.ok /\ found.ok /\ query.ok THEN {query.query} ELSE {}
      completed == EmitQueryExecutionCompletedEvent(<<>>, payload.mappingId,
                                                    PublishRefusal(env.fault))
      pipeline ==
        IF ~builder.ok THEN [ok |-> FALSE, err |-> builder.err, attempts |-> <<>>]
        ELSE IF ~found.ok THEN [ok |-> FALSE, err |-> found.err, attempts |-> <<>>]
        ELSE IF ~query.ok THEN [ok |-> FALSE, err |-> query.err, attempts |-> <<>>]
        ELSE IF ~result.ok THEN [ok |-> FALSE, err |-> result.err, attempts |-> <<>>]
        ELSE [ok |-> completed.ok, err |-> completed.err,
              attempts |-> completed.attempts]
      failed == PublishDappQueryExecutionFailed(pipeline.attempts, queryId,
                                                pipeline.err, env.refusal)
  IN IF ~nilcommPk.ok
     THEN [outcome |-> "throw", err |-> nilcommPk.err, pipelineErr |-> nilcommPk.err,
           attempts |-> <<>>, aggregated |-> {}]
     ELSE IF pipeline.ok
          THEN [outcome |-> "ok", err |-> "", pipelineErr |-> "",
                attempts |-> pipeline.attempts, aggregated |-> aggregated]
          ELSE [outcome |-> "fail", err |-> TapError(pipeline.err, failed),
                pipelineErr |-> pipeline.err, attempts |-> failed.attempts,
                aggregated |-> aggregated]

\* What the environment decides during one command.
Refusals == {"", "AmqpPublishMessageError", "DataValidationError"}
PublishFault == [step |-> "publish", err |-> "AmqpPublishMessageError", owner |-> ""]
StoreSecretFaults == CreateFaults \cup {PublishFault}
QueryFaults == {NoFault, PublishFault} \cup
  [step : {"findBuilder", "findQueries", "aggregation"}, err : StoreErrors, owner : {""}]

\* The plaintexts a sealed share can enclose.
Secrets == {"x", "y"}

\* The share fields after a handler step that took the commit-reveal
\* collection from before to after while storing secret under id m.
StoreShare(before, after, m, secret) ==
  IF after[CommitRevealSchemaId] # before[CommitRevealSchemaId]
  THEN [secrets EXCEPT ![m] = Append(@, secret)]
  ELSE secrets

StoreSecretCommand ==
  \E m \in Ids, share \in {"sealed", "garbled"}, secret \in Secrets,
     valid \in BOOLEAN, f \in StoreSecretFaults, refusal \in Refusals :
    LET r == ProcessDappStoreSecret(St, [mappingId |-> m, share |-> share],
                                    [valid |-> valid, fault |-> f, refusal |-> refusal])
    IN /\ WithinBound(r.users)
       /\ coll' = r.coll
       /\ users' = r.users
       /\ secrets' = StoreShare(coll, r.coll, m, secret)
       /\ handled' = [cmd |-> "StoreSecret", mappingId |-> m, queryId |-> 0,
                      requester |-> "", outcome |-> r.outcome, err |-> r.err,
                      pipelineErr |-> r.pipelineErr, attempts |-> r.attempts]
       /\ UNCHANGED <<schemas, last, builders, queries, guard, deliveries,
                       directoryVars, boot,
                   moreVars>>

\* ------------------------------------------------------------ deliveries
\* processDappStoreSecret as the runtime evaluates it: one step per store or
\* bus call, invocations of several deliveries interleaving between the steps.
MaxDeliveries == 2

Slots == 1..MaxDeliveries

NoDelivery == [pc |-> "idle", mappingId |-> 0, share |-> "", secret |-> "",
               documentType |-> "none", err |-> "", event |-> "none"]

\* The bus delivers a StoreSecret command, for the first time or again.
DeliverStoreSecret ==
  \E k \in Slots, m \in Ids, share \in {"sealed", "garbled"}, secret \in Secrets :
    /\ deliveries[k].pc \in {"idle", "done"}
    /\ deliveries' = [deliveries EXCEPT ![k] =
                        [NoDelivery EXCEPT !.pc = "received", !.mappingId = m,
                                           !.share = share, !.secret = secret]]
    /\ UNCHANGED <<dataVars, builders, queries, guard, handled, secrets,
                   directoryVars, boot,
                   moreVars>>

\* E.try decrypt, then createRecords up to its insert: the schema lookup and
\* the validation of the one record.
ResolveStep ==
  \E k \in Slots, valid \in BOOLEAN :
    LET d == deliveries[k]
        share == Decrypt(d.share)
        document == SchemasFindOne(CommitRevealSchemaId, NoFault)
        data == BindData(document.doc, [data |-> <<[id |-> d.mappingId,
                                                   valid |-> valid]>>])
        failed(e) == [d EXCEPT !.pc = "failing", !.err = e]
    IN /\ d.pc = "received"
       /\ deliveries' = [deliveries EXCEPT ![k] =
            IF ~share.ok THEN failed(share.err)
            ELSE IF ~document.ok THEN failed(document.err)
            ELSE IF ~data.ok THEN failed(data.err)
            ELSE [d EXCEPT !.pc = "insert",
                           !.documentType = document.doc.documentType]]
       /\ UNCHANGED <<dataVars, builders, queries, guard, handled, secrets,
                      directoryVars, boot,
                   moreVars>>

\* DataRepository.insert of the record keyed by mappingId.
InsertStep ==
  \E k \in Slots :
    LET d == deliveries[k]
        document == [id |-> CommitRevealSchemaId, documentType |-> d.documentType]
        result == DataInsert(coll, document,
                             <<[id |-> d.mappingId, valid |-> TRUE]>>, NodeDid, NoFault)
    IN /\ d.pc = "insert"
       /\ coll' = result.coll
       /\ secrets' = IF result.ok THEN [secrets EXCEPT ![d.mappingId] = Append(@, d.secret)]
                     ELSE secrets
       /\ deliveries' = [deliveries EXCEPT ![k] =
            IF ~result.ok THEN [d EXCEPT !.pc = "failing", !.err = result.err]
            ELSE IF IsOwned(document) THEN [d EXCEPT !.pc = "upsert"]
            ELSE [d EXCEPT !.pc = "emit"]]
       /\ UNCHANGED <<schemas, users, last, builders, queries, guard, handled,
                      directoryVars, boot,
                   moreVars>>

\* UserRepository.upsert of the reference, for an owned schema.
UpsertStep ==
  \E k \in Slots :
    LET d == deliveries[k]
        up == UserUpsert(users, NodeDid, CommitRevealSchemaId, <<d.mappingId>>, NoFault)
    IN /\ d.pc = "upsert"
       /\ WithinBound(up.users)
       /\ users' = up.users
       /\ deliveries' = [deliveries EXCEPT ![k] = [d EXCEPT !.pc = "emit"]]
       /\ UNCHANGED <<schemas, coll, last, builders, queries, guard, handled,
                      secrets, directoryVars, boot,
                   moreVars>>

\* emitSecretStoredEvent; a refusal of the bus fails the pipeline.
EmitStep ==
  \E k \in Slots, refusal \in {"", "AmqpPublishMessageError"} :
    LET d == deliveries[k]
        stored == EmitSecretStoredEvent(<<>>, d.mappingId, refusal)
    IN /\ d.pc = "emit"
       /\ deliveries' = [deliveries EXCEPT ![k] =
            IF stored.ok THEN [d EXCEPT !.pc = "done", !.event = "SecretStored"]
            ELSE [d EXCEPT !.pc = "failing", !.err = stored.err]]
       /\ UNCHANGED <<dataVars, builders, queries, guard, handled, secrets,
                      directoryVars, boot,
                   moreVars>>

\* E.tapError: publishDappStoreSecretFailed, then the invocation ends.
FailStep ==
  \E k \in Slots :
    LET d == deliveries[k]
        failed == PublishDappStoreSecretFailed(<<>>, d.mappingId, d.err, "")
    IN /\ d.pc = "failing"
       /\ deliveries' = [deliveries EXCEPT ![k] =
            [d EXCEPT !.pc = "done", !.event = failed.attempts[1].event.type]]
       /\ UNCHANGED <<dataVars, builders, queries, guard, handled, secrets,
                      directoryVars, boot,
                   moreVars>>

StartQueryExecutionCommand ==
  \E m \in Ids, q \in Ids, pk \in OwnerPks, f \in QueryFaults, refusal \in Refusals :
    LET r == ProcessDappStartQueryExecution(
               [mappingId |-> m, queryId |-> q, ownerPk |-> pk],
               [fault |-> f, refusal |-> refusal])
    IN /\ handled' = [cmd |-> "StartQueryExecution", mappingId |-> m, queryId |-> q,
                      requester |-> pk.key, outcome |-> r.outcome, err |-> r.err,
                      pipelineErr |-> r.pipelineErr, attempts |-> r.attempts]
       /\ UNCHANGED <<dataVars, builders, queries, guard, extVars>>

\* ------------------------------------------------------------ builder directory
Names == {"n1", "n2"}

\* ctx.cache.builders holds no entry for a DID.
NoEntry == [cached |-> FALSE, doc |-> NoBuilder("")]

NoDirCall == [hit |-> FALSE, op |-> "none", did |-> "", ok |-> TRUE, err |-> "", reads |-> 0,
              name |-> ""]

NoBoot == [lookup |-> "", outcome |-> "none", err |-> "", created |-> {}, provisioned |-> {},
           runs |-> 0]

\* The errors a call on the builders, schemas or queries collection fails with.
DirErrors == {"DatabaseError", "CollectionNotFoundError"}

\* The directory's state: the builders collection and ctx.cache.builders.
DirSt == [builders |-> builders, cache |-> cache]

\* A lookup that never finds the document.
FindMissing(dst, did, f) ==
  [ok |-> FALSE, err |-> "DocumentNotFoundError", builder |-> NoBuilder(did),
   reads |-> 1, cache |-> dst.cache]

\* BuilderService.find(ctx, did): BuilderRepository.findOneOrganization, which
\* reads the store and neither consults nor fills the cache.
Find(dst, did, f) ==
  LET r == FindOneOrganization(dst.builders, did, f)
  IN [ok |-> r.ok, err |-> r.err, builder |-> r.builder, reads |-> r.reads,
      cache |-> dst.cache]

\* BuilderRepository.findByIdWithCache(ctx, _id): the cached document when the
\* cache holds one; else findOne on the store and, on success, cache.set.
FindByIdWithCache(dst, id, f) ==
  IF dst.cache[id].cached
  THEN [ok |-> TRUE, err |-> "", builder |-> dst.cache[id].doc, reads |-> 0,
        cache |-> dst.cache]
  ELSE LET r == FindOneOrganization(dst.builders, id, f)
       IN [ok |-> r.ok, err |-> r.err, builder |-> r.builder, reads |-> r.reads,
           cache |-> IF r.ok
                     THEN [dst.cache EXCEPT ![id] = [cached |-> TRUE, doc |-> r.builder]]
                     ELSE dst.cache]

\* BuilderRepository.insert(ctx, document): insertOne; the store keeps _id
\* unique and rejects a second document for a DID.
BuilderInsert(store, document, f) ==
  IF f.step = "insertBuilder" THEN [ok |-> FALSE, err |-> f.err, builders |-> store]
  ELSE IF store[document.id].exists
       THEN [ok |-> FALSE, err |-> "DatabaseError", builders |-> store]
       ELSE [ok |-> TRUE, err |-> "",
             builders |-> [store EXCEPT ![document.id] = document]]

\* A createBuilder without the guard on the node's own DID.
CreateBuilderUnguarded(store, command, f) ==
  BuilderInsert(store, [exists |-> TRUE, id |-> command.did,
                        name |-> command.name, schemas |-> {},
                        queries |-> {}], f)

\* BuilderService.createBuilder(ctx, command): the node's own DID is refused
\* as a duplicate; else the document is built and inserted.
CreateBuilder(store, command, f) ==
  IF command.did = NodeDid
  THEN [ok |-> FALSE, err |-> "DuplicateEntryError", builders |-> store]
  ELSE BuilderInsert(store, [exists |-> TRUE, id |-> command.did,
                             name |-> command.name, schemas |-> {},
                             queries |-> {}], f)

\* A delete that evicts the cache entry whatever the store answered.
DeleteOneByIdEvictFirst(dst, id, f) ==
  [ok |-> f.step # "deleteBuilder",
   err |-> IF f.step = "deleteBuilder" THEN f.err ELSE "",
   builders |-> IF f.step = "deleteBuilder" THEN dst.builders
                ELSE [dst.builders EXCEPT ![id] = NoBuilder(id)],
   cache |-> [dst.cache EXCEPT ![id] = NoEntry]]

\* BuilderRepository.deleteOneById(ctx, _id): deleteOne on the store (its
\* result is never null, so deleting an absent builder succeeds), then
\* cache.delete.
DeleteOneById(dst, id, f) ==
  IF f.step = "deleteBuilder"
  THEN [ok |-> FALSE, err |-> f.err, builders |-> dst.builders, cache |-> dst.cache]
  ELSE [ok |-> TRUE, err |-> "",
        builders |-> [dst.builders EXCEPT ![id] = NoBuilder(id)],
        cache |-> [dst.cache EXCEPT ![id] = NoEntry]]

\* BuilderService.remove(ctx, id)
Remove(dst, id, f) == DeleteOneById(dst, id, f)

\* The partial field sets of an update: each field given or "absent".
Updates == [id : {"absent"} \cup OwnerDids, name : {"absent"} \cup Names]

\* An update that also refreshes the cache entry.
UpdateEvicting(dst, id, updates, f) ==
  [ok |-> TRUE, err |-> "",
   builders |-> IF dst.builders[id].exists /\ updates.name # "absent"
                THEN [dst.builders EXCEPT ![id].name = updates.name]
                ELSE dst.builders,
   cache |-> [dst.cache EXCEPT ![id] = NoEntry]]

\* BuilderRepository.update(ctx, _id, updates): updateOne with $set of the
\* fields given.  No matching document is not an error (the result is never
\* null); the store refuses a $set that would change _id.  The cache is not
\* touched.
Update(dst, id, updates, f) ==
  IF f.step = "updateBuilder"
  THEN [ok |-> FALSE, err |-> f.err, builders |-> dst.builders, cache |-> dst.cache]
  ELSE IF ~dst.builders[id].exists
       THEN [ok |-> TRUE, err |-> "", builders |-> dst.builders, cache |-> dst.cache]
       ELSE IF updates.id \notin {"absent", id}
            THEN [ok |-> FALSE, err |-> "DatabaseError", builders |-> dst.builders,
                  cache |-> dst.cache]
            ELSE [ok |-> TRUE, err |-> "",
                  builders |-> IF updates.name # "absent"
                               THEN [dst.builders EXCEPT ![id].name = updates.name]
                               ELSE dst.builders,
                  cache |-> dst.cache]

\* BuilderService.updateProfile(ctx, command)
UpdateProfile(dst, command, f) == Update(dst, command.builderId, command.updates, f)

\* The tenants the directory is exercised with.
DirDids == {"did:nil:a"}

DirFaults(step) == {NoFault} \cup [step : {step}, err : DirErrors, owner : {""}]

FindCall ==
  \E d \in DirDids, f \in DirFaults("findBuilder") :
    LET r == Find(DirSt, d, f)
    IN /\ cache' = r.cache
       /\ dir' = [hit |-> cache[d].cached, op |-> "find", did |-> d, ok |-> r.ok, err |-> r.err,
                  reads |-> r.reads, name |-> r.builder.name]
       /\ UNCHANGED <<dataVars, builders, queries, guard, handled, deliveryVars, boot,
                   moreVars>>

FindByIdWithCacheCall ==
  \E d \in DirDids, f \in DirFaults("findBuilder") :
    LET r == FindByIdWithCache(DirSt, d, f)
    IN /\ cache' = r.cache
       /\ dir' = [hit |-> cache[d].cached, op |-> "findByIdWithCache", did |-> d, ok |-> r.ok, err |-> r.err,
                  reads |-> r.reads, name |-> r.builder.name]
       /\ UNCHANGED <<dataVars, builders, queries, guard, handled, deliveryVars, boot,
                   moreVars>>

CreateBuilderCall ==
  \E d \in DirDids \cup {NodeDid}, n \in Names, f \in DirFaults("insertBuilder") :
    LET r == CreateBuilder(builders, [did |-> d, name |-> n], f)
    IN /\ builders' = r.builders
       /\ dir' = [hit |-> cache[d].cached, op |-> "createBuilder", did |-> d, ok |-> r.ok, err |-> r.err,
                  reads |-> 0, name |-> n]
       /\ UNCHANGED <<dataVars, queries, guard, handled, deliveryVars, cache, boot,
                   moreVars>>

RemoveCall ==
  \E d \in DirDids, f \in DirFaults("deleteBuilder") :
    LET r == Remove(DirSt, d, f)
    IN /\ builders' = r.builders
       /\ cache' = r.cache
       /\ dir' = [hit |-> cache[d].cached, op |-> "remove", did |-> d, ok |-> r.ok, err |-> r.err,
                  reads |-> 0, name |-> ""]
       /\ UNCHANGED <<dataVars, queries, guard, handled, deliveryVars, boot,
                   moreVars>>

UpdateProfileCall ==
  \E d \in DirDids, u \in Updates, f \in DirFaults("updateBuilder") :
    LET r == UpdateProfile(DirSt, [builderId |-> d, updates |-> u], f)
    IN /\ builders' = r.builders
       /\ cache' = r.cache
       /\ dir' = [hit |-> cache[d].cached, op |-> "updateProfile", did |-> d, ok |-> r.ok, err |-> r.err,
                  reads |-> 0, name |-> u.name]
       /\ UNCHANGED <<dataVars, queries, guard, handled, deliveryVars, boot,
                   moreVars>>

\* ------------------------------------------------------------ bootstrap
\* SchemaService.addSchema(ctx, {...template, owner}): the schema document
\* joins the registry and its id joins the owner's schemas.
AddSchema(st, sid, documentType, owner, f) ==
  IF f.step = "addSchema"
  THEN [ok |-> FALSE, err |-> f.err, builders |-> st.builders, schemas |-> st.schemas]
  ELSE IF st.schemas[sid] # "none"
       THEN [ok |-> FALSE, err |-> "DatabaseError", builders |-> st.builders,
             schemas |-> st.schemas]
       ELSE [ok |-> TRUE, err |-> "",
             builders |-> [st.builders EXCEPT ![owner].schemas = @ \cup {sid}],
             schemas |-> [st.schemas EXCEPT ![sid] = documentType]]

\* QueryService.addQuery(ctx, {...template, owner}): the query document joins
\* the queries collection and its id joins the owner's queries.
AddQuery(st, qid, owner, f) ==
  IF f.step = "addQuery"
  THEN [ok |-> FALSE, err |-> f.err, builders |-> st.builders, queries |-> st.queries]
  ELSE IF st.queries[qid] # "none"
       THEN [ok |-> FALSE, err |-> "DatabaseError", builders |-> st.builders,
             queries |-> st.queries]
       ELSE [ok |-> TRUE, err |-> "",
             builders |-> [st.builders EXCEPT ![owner].queries = @ \cup {qid}],
             queries |-> [st.queries EXCEPT ![qid] = owner]]

\* A handler that provisions after any failed lookup.
CatchAny(err) == TRUE

\* E.catchTag("DocumentNotFoundError", ...)
CatchNotFound(err) == err = "DocumentNotFoundError"

\* The store as the bootstrap sees it.
BootSt == [builders |-> builders, schemas |-> schemas, queries |-> queries]

\* ensureNilcommAccount(ctx): find the reserved builder; when the lookup fails
\* with DocumentNotFoundError create the builder, then add the commit-reveal
\* schema, then the commit-reveal query, each step run only after the one
\* before it succeeded.  env.fault names the failing store call,
\* env.documentType the documentType of the schema template.
EnsureNilcommAccount(st, env) ==
  LET did == NilcommDid
      same == [builders |-> st.builders, schemas |-> st.schemas, queries |-> st.queries]
      found == Find([builders |-> st.builders, cache |-> cache], did, env.fault)
      builder == CreateBuilder(st.builders, [did |-> did, name |-> "nilcomm"], env.fault)
      schema == AddSchema([builders |-> builder.builders, schemas |-> st.schemas],
                          CommitRevealSchemaId, env.documentType, did, env.fault)
      query == AddQuery([builders |-> schema.builders, queries |-> st.queries],
                        CommitRevealQueryId, did, env.fault)
  IN IF found.ok
     THEN same @@ [lookup |-> found.err, outcome |-> "ok", err |-> "", created |-> {}]
     ELSE IF ~CatchNotFound(found.err)
     THEN same @@ [lookup |-> found.err, outcome |-> "fail", err |-> found.err, created |-> {}]
     ELSE IF ~builder.ok
     THEN same @@ [lookup |-> found.err, outcome |-> "fail", err |-> builder.err, created |-> {}]
     ELSE IF ~schema.ok
     THEN [builders |-> builder.builders, schemas |-> st.schemas,
           queries |-> st.queries, lookup |-> found.err,
           outcome |-> "fail", err |-> schema.err,
           created |-> {"builder"}]
     ELSE IF ~query.ok
     THEN [builders |-> schema.builders, schemas |-> schema.schemas,
           queries |-> st.queries, lookup |-> found.err,
           outcome |-> "fail", err |-> query.err,
           created |-> {"builder", "schema"}]
     ELSE [builders |-> query.builders, schemas |-> schema.schemas,
           queries |-> query.queries, lookup |-> found.err,
           outcome |-> "ok", err |-> "",
           created |-> {"builder", "schema", "query"}]

\* What the environment decides during one run of the bootstrap.
BootFaults ==
  {NoFault} \cup [step : {"findBuilder", "insertBuilder", "addSchema", "addQuery"},
                  err : DirErrors, owner : {""}]
BootEnvs == [fault : BootFaults, documentType : {"owned", "standard"}]

\* The node starts, or starts again.
MaxRuns == 3

EnsureNilcommAccountRun ==
  \E env \in BootEnvs :
    LET r == EnsureNilcommAccount(BootSt, env)
    IN /\ boot.runs < MaxRuns
       /\ builders' = r.builders
       /\ schemas' = r.schemas
       /\ queries' = r.queries
       /\ boot' = [lookup |-> r.lookup, outcome |-> r.outcome, err |-> r.err,
                   created |-> r.created,
                   provisioned |-> boot.provisioned \cup r.created,
                   runs |-> boot.runs + 1]
       /\ UNCHANGED <<coll, users, last, guard, handled, deliveryVars, directoryVars,
                   moreVars>>

\* ------------------------------------------------------------ indexes
\* The node keeps two databases: "primary" holds the fixed collections,
\* "data" holds one backing collection per schema, named by the schema id.
PrimaryCollections == {"builders", "schemas", "queries", "users"}

CollectionsOf(registry, db) ==
  IF db = "primary" THEN PrimaryCollections
  ELSE {s \in SchemaIds : registry[s] # "none"}

\* checkCollectionExists(ctx, db, name): the collection, or
\* CollectionNotFoundError when the database has no collection of that name.
CheckCollectionExists(registry, db, name) ==
  IF name \in CollectionsOf(registry, db)
  THEN [ok |-> TRUE, err |-> ""]
  ELSE [ok |-> FALSE, err |-> "CollectionNotFoundError"]

IndexNames == {"ix1", "ix2"}
IndexSpecs == [name : IndexNames, unique : BOOLEAN]

\* The codes the store rejects a createIndex with when an index of the same
\* name exists with other options.
ConflictCodes == {"CannotCreateIndex", "IndexOptionsConflict"}

\* collection.createIndex(specification, options) on the store: an index of
\* the same name and options is kept, one of the same name and other options
\* is a conflict the store rejects with env's code, a new one is created.
StoreCreateIndex(ixs, sid, spec, code) ==
  IF \E i \in ixs[sid] : i.name = spec.name /\ i # spec
  THEN [ok |-> FALSE, code |-> code, indexes |-> ixs]
  ELSE [ok |-> TRUE, code |-> "", indexes |-> [ixs EXCEPT ![sid] = @ \cup {spec}]]

\* collection.dropIndex(name) on the store.
StoreDropIndex(ixs, sid, name) ==
  IF \E i \in ixs[sid] : i.name = name
  THEN [ok |-> TRUE, code |-> "",
        indexes |-> [ixs EXCEPT ![sid] = {i \in @ : i.name # name}]]
  ELSE [ok |-> FALSE, code |-> "IndexNotFound", indexes |-> ixs]

\* The database createIndex and dropIndex look the backing collection up in.
IndexDb == "primary"

\* The database getCollectionStats looks the backing collection up in.
StatsDb == "data"

\* createIndex(ctx, schema, specification, options): checkCollectionExists,
\* then collection.createIndex; a rejection with code CannotCreateIndex
\* becomes InvalidIndexOptionsError, any other rejection DatabaseError.
CreateIndex(registry, ixs, schema, spec, code) ==
  LET collection == CheckCollectionExists(registry, IndexDb, schema)
      created == StoreCreateIndex(ixs, schema, spec, code)
  IN IF ~collection.ok THEN [ok |-> FALSE, err |-> collection.err, indexes |-> ixs]
     ELSE IF created.ok THEN [ok |-> TRUE, err |-> "", indexes |-> created.indexes]
     ELSE IF created.code = "CannotCreateIndex"
          THEN [ok |-> FALSE, err |-> "InvalidIndexOptionsError", indexes |-> ixs]
          ELSE [ok |-> FALSE, err |-> "DatabaseError", indexes |-> ixs]

\* dropIndex(ctx, schema, name): checkCollectionExists, then
\* collection.dropIndex; a rejection with code IndexNotFound becomes
\* IndexNotFoundError.
DropIndex(registry, ixs, schema, name) ==
  LET collection == CheckCollectionExists(registry, IndexDb, schema)
      dropped == StoreDropIndex(ixs, schema, name)
  IN IF ~collection.ok THEN [ok |-> FALSE, err |-> collection.err, indexes |-> ixs]
     ELSE IF dropped.ok THEN [ok |-> TRUE, err |-> "", indexes |-> dropped.indexes]
     ELSE [ok |-> FALSE, err |-> "IndexNotFoundError", indexes |-> ixs]

\* getCollectionStats(ctx, id): checkCollectionExists on the data database,
\* then the index list of the backing collection.
GetCollectionStats(registry, ixs, id) ==
  LET collection == CheckCollectionExists(registry, StatsDb, id)
  IN IF ~collection.ok THEN [ok |-> FALSE, err |-> collection.err, indexes |-> {}]
     ELSE [ok |-> TRUE, err |-> "", indexes |-> ixs[id]]

NoIdxCall == [op |-> "none", schema |-> "", name |-> "", ok |-> TRUE, err |-> "",
              listed |-> {}]

CreateIndexCall ==
  \E sid \in SchemaIds, spec \in IndexSpecs, code \in ConflictCodes :
    LET r == CreateIndex(schemas, indexes, sid, spec, code)
    IN /\ indexes' = r.indexes
       /\ idx' = [op |-> "createIndex", schema |-> sid, name |-> spec.name,
                  ok |-> r.ok, err |-> r.err, listed |-> {}]
       /\ UNCHANGED <<dataVars, builders, queries, guard, handled, deliveryVars,
                      directoryVars, boot, flights, calls>>

DropIndexCall ==
  \E sid \in SchemaIds, name \in IndexNames :
    LET r == DropIndex(schemas, indexes, sid, name)
    IN /\ indexes' = r.indexes
       /\ idx' = [op |-> "dropIndex", schema |-> sid, name |-> name,
                  ok |-> r.ok, err |-> r.err, listed |-> {}]
       /\ UNCHANGED <<dataVars, builders, queries, guard, handled, deliveryVars,
                      directoryVars, boot, flights, calls>>

GetCollectionStatsCall ==
  \E sid \in SchemaIds :
    LET r == GetCollectionStats(schemas, indexes, sid)
    IN /\ idx' = [op |-> "getCollectionStats", schema |-> sid, name |-> "",
                  ok |-> r.ok, err |-> r.err, listed |-> r.indexes]
       /\ UNCHANGED <<dataVars, builders, queries, guard, handled, deliveryVars,
                      directoryVars, boot, indexes, flights, calls>>

\* SchemaService.addSchema and deleteSchema as builders use them: a schema and
\* its backing collection join or leave the registry.
SchemaAdded ==
  \E sid \in UserSchemaIds, t \in {"owned", "standard"}, b \in GuardDids :
    LET r == AddSchema([builders |-> builders, schemas |-> schemas], sid, t, b, NoFault)
    IN /\ builders[b].exists
       /\ r.ok
       /\ builders' = r.builders
       /\ schemas' = r.schemas
       /\ idx' = NoIdxCall
       /\ UNCHANGED <<coll, users, last, queries, guard, handled, deliveryVars,
                      directoryVars, boot, indexes, flights, calls>>

SchemaDeleted ==
  \E sid \in UserSchemaIds, b \in GuardDids :
    /\ schemas[sid] # "none"
    /\ coll[sid] = {}
    /\ schemas' = [schemas EXCEPT ![sid] = "none"]
    /\ builders' = [builders EXCEPT ![b].schemas = @ \ {sid}]
    /\ indexes' = [indexes EXCEPT ![sid] = {}]
    /\ idx' = NoIdxCall
    /\ UNCHANGED <<coll, users, last, queries, guard, handled, deliveryVars,
                   directoryVars, boot, flights, calls>>

\* In-flight slots of the interleaved directory and data calls.
NoFlight == [op |-> "idle", pc |-> "idle", did |-> "", doc |-> NoBuilder(""),
             ok |-> TRUE, err |-> "", reads |-> 0, hit |-> FALSE]

NoDataCall == [op |-> "idle", pc |-> "idle", schema |-> "", owner |-> "",
               data |-> <<>>, created |-> <<>>, filter |-> {}, matched |-> {},
               todo |-> {}, ok |-> TRUE]

MaxFlights == 2
FlightSlots == 1..MaxFlights

MaxCalls == 2
CallSlots == 1..MaxCalls

\* ------------------------------------------------------------ directory calls in flight
\* What the calls in flight leave alone.
flightFrame == <<dataVars, queries, guard, handled, deliveryVars, dir, boot, indexVars, calls>>

\* A cache.set that stores nothing.
CacheSetSkipped(c, id, document) == c

\* cache.set(_id, document)
CacheSet(c, id, document) == [c EXCEPT ![id] = [cached |-> TRUE, doc |-> document]]

\* cache.delete(_id)
CacheDelete(c, id) == [c EXCEPT ![id] = NoEntry]

\* findByIdWithCache is called: cache.get runs at the call; a hit answers with
\* the cached document, a miss goes on to the store.
FindStart(k) ==
  \E d \in DirDids :
    /\ flights[k].op = "idle"
    /\ flights' = [flights EXCEPT ![k] =
         IF cache[d].cached
         THEN [NoFlight EXCEPT !.op = "find", !.pc = "done", !.did = d,
                               !.doc = cache[d].doc, !.hit = TRUE]
         ELSE [NoFlight EXCEPT !.op = "find", !.pc = "findOne", !.did = d]]
    /\ UNCHANGED <<builders, cache, flightFrame>>

\* collection.findOne(filter) of a find that missed: a store failure or an
\* absent document ends the call, a document goes on to cache.set.
FindRead(k) ==
  \E f \in DirFaults("findBuilder") :
    LET r == FindOneOrganization(builders, flights[k].did, f)
    IN /\ flights[k].op = "find" /\ flights[k].pc = "findOne"
       /\ flights' = [flights EXCEPT ![k] =
            [@ EXCEPT !.pc = IF r.ok THEN "set" ELSE "done", !.doc = r.builder,
                      !.ok = r.ok, !.err = r.err, !.reads = r.reads]]
       /\ UNCHANGED <<builders, cache, flightFrame>>

\* E.tap((document) => cache.set(_id, document)) with the document read.
FindSet(k) ==
  /\ flights[k].op = "find" /\ flights[k].pc = "set"
  /\ cache' = CacheSet(cache, flights[k].did, flights[k].doc)
  /\ flights' = [flights EXCEPT ![k].pc = "done"]
  /\ UNCHANGED <<builders, flightFrame>>

\* deleteOneById is called.
DeleteStart(k) ==
  \E d \in DirDids :
    /\ flights[k].op = "idle"
    /\ flights' = [flights EXCEPT ![k] =
         [NoFlight EXCEPT !.op = "delete", !.pc = "deleteOne", !.did = d]]
    /\ UNCHANGED <<builders, cache, flightFrame>>

\* collection.deleteOne(filter): a store failure ends the call, else the
\* document is gone and the call goes on to the eviction.
DeleteOne(k) ==
  \E f \in DirFaults("deleteBuilder") :
    /\ flights[k].op = "delete" /\ flights[k].pc = "deleteOne"
    /\ IF f = NoFault
       THEN /\ builders' = [builders EXCEPT ![flights[k].did] = NoBuilder(flights[k].did)]
            /\ flights' = [flights EXCEPT ![k].pc = "evict"]
       ELSE /\ builders' = builders
            /\ flights' = [flights EXCEPT ![k] =
                 [@ EXCEPT !.pc = "done", !.ok = FALSE, !.err = f.err]]
    /\ UNCHANGED <<cache, flightFrame>>

\* E.tap(() => ctx.cache.builders.delete(_id))
DeleteEvict(k) ==
  /\ flights[k].op = "delete" /\ flights[k].pc = "evict"
  /\ cache' = CacheDelete(cache, flights[k].did)
  /\ flights' = [flights EXCEPT ![k].pc = "done"]
  /\ UNCHANGED <<builders, flightFrame>>

\* ------------------------------------------------------------ data calls in flight
\* What the data calls in flight leave alone.
callFrame == <<schemas, last, builders, queries, guard, handled, deliveryVars,
               directoryVars, boot, indexVars, flights>>

\* The schema the concurrent calls share.
SharedSchemas == {"S1"}

\* createRecords is called: the schema is resolved and the batch validated; a
\* rejected batch ends the call.
CallCreate(k) ==
  \E sid \in SharedSchemas, owner \in OwnerDids, data \in Batches :
    LET document == SchemasFindOne(sid, NoFault)
        bound == BindData(document.doc, [data |-> data])
    IN /\ calls[k].op = "idle"
       /\ calls' = [calls EXCEPT ![k] =
            [NoDataCall EXCEPT !.op = "createRecords", !.schema = sid, !.owner = owner,
                               !.data = data,
                               !.pc = IF document.ok /\ bound.ok THEN "insert" ELSE "done",
                               !.ok = document.ok /\ bound.ok]]
       /\ UNCHANGED <<coll, users, callFrame>>

\* createRecords: DataRepository.insert; a rejected insert ends the call.
CallInsert(k) ==
  LET c == calls[k]
      result == DataInsert(coll, SchemasFindOne(c.schema, NoFault).doc, c.data, c.owner,
                           NoFault)
  IN /\ c.op = "createRecords" /\ c.pc = "insert"
     /\ coll' = result.coll
     /\ calls' = [calls EXCEPT ![k] =
          [@ EXCEPT !.created = result.created, !.ok = result.ok,
                    !.pc = IF ~result.ok THEN "done"
                           ELSE IF IsOwned(SchemasFindOne(c.schema, NoFault).doc)
                                THEN "upsert" ELSE "done"]]
     /\ UNCHANGED <<users, callFrame>>

\* createRecords: UserRepository.upsert of the created ids.
CallUpsert(k) ==
  LET c == calls[k]
      up == UserUpsert(users, c.owner, c.schema, c.created, NoFault)
  IN /\ c.op = "createRecords" /\ c.pc = "upsert"
     /\ WithinBound(up.users)
     /\ users' = up.users
     /\ calls' = [calls EXCEPT ![k].pc = "done"]
     /\ UNCHANGED <<coll, callFrame>>

\* deleteRecords is called.
CallDelete(k) ==
  \E sid \in SharedSchemas, filter \in Filters :
    /\ calls[k].op = "idle"
    /\ calls' = [calls EXCEPT ![k] =
         [NoDataCall EXCEPT !.op = "deleteRecords", !.schema = sid, !.filter = filter,
                            !.pc = "findMany"]]
    /\ UNCHANGED <<coll, users, callFrame>>

\* deleteRecords: DataRepository.findMany, then groupByOwner of what it found.
CallFindMany(k) ==
  LET c == calls[k]
      found == DataFindMany(coll, c.schema, c.filter, NoFault)
  IN /\ c.op = "deleteRecords" /\ c.pc = "findMany"
     /\ calls' = [calls EXCEPT ![k] =
          [@ EXCEPT !.matched = found.docs, !.todo = DOMAIN GroupByOwner(found.docs),
                    !.ok = found.ok,
                    !.pc = IF ~found.ok THEN "done"
                           ELSE IF found.docs = {} THEN "deleteMany" ELSE "removeData"]]
     /\ UNCHANGED <<coll, users, callFrame>>

\* deleteRecords: one UserRepository.removeData of deleteAllUserDataReferences,
\* for an owner not handled yet.
CallRemoveData(k) ==
  \E o \in calls[k].todo :
    LET c == calls[k]
        r == UserRemoveData(users, o, GroupByOwner(c.matched)[o], NoFault)
    IN /\ c.op = "deleteRecords" /\ c.pc = "removeData"
       /\ users' = r.users
       /\ calls' = [calls EXCEPT ![k] =
            [@ EXCEPT !.todo = @ \ {o},
                      !.pc = IF c.todo = {o} THEN "deleteMany" ELSE "removeData"]]
       /\ UNCHANGED <<coll, callFrame>>

\* deleteRecords: DataRepository.deleteMany with the command's filter.
CallDeleteMany(k) ==
  LET c == calls[k]
      del == DataDeleteMany(coll, c.schema, c.filter, NoFault)
  IN /\ c.op = "deleteRecords" /\ c.pc = "deleteMany"
     /\ coll' = del.coll
     /\ calls' = [calls EXCEPT ![k] = [@ EXCEPT !.pc = "done", !.ok = del.ok]]
     /\ UNCHANGED <<users, callFrame>>

\* ------------------------------------------------------------ specification
NoCommand == [cmd |-> "none", mappingId |-> 0, queryId |-> 0, requester |-> "",
              outcome |-> "none",
              err |-> "", pipelineErr |-> "", attempts |-> <<>>]

InitStore ==
  /\ coll = [s \in SchemaIds |-> {}]
  /\ users = [d \in Dids |-> NoUser]
  /\ last = NoCall
  /\ guard = NoGuard
  /\ handled = NoCommand
  /\ deliveries = [k \in Slots |-> NoDelivery]
  /\ secrets = [m \in Ids |-> <<>>]
  /\ cache = [d \in Dids |-> NoEntry]
  /\ dir = NoDirCall
  /\ boot = NoBoot
  /\ indexes = [s \in SchemaIds |-> {}]
  /\ idx = NoIdxCall
  /\ flights = [k \in FlightSlots |-> NoFlight]
  /\ calls = [k \in CallSlots |-> NoDataCall]

\* The registry holds S1 (owned) and S2 (owned or standard); the node's
\* account has not been provisioned.
InitData ==
  /\ InitStore
  /\ schemas \in {s \in [SchemaIds -> {"none", "owned", "standard"}] :
                    /\ s["S1"] = "owned"
                    /\ s["S2"] # "none"
                    /\ s[UnknownSchemaId] = "none"
                    /\ s[CommitRevealSchemaId] = "none"}
  /\ builders = [d \in Dids |-> NoBuilder(d)]
  /\ queries = [q \in QueryIds |-> "none"]

\* The data engine over a store that does not fail.
NextData == CreateRecordsCall \/ DeleteRecordsCall

SpecData == InitData /\ [][NextData]_vars

\* The data engine over a store that may fail at any step of a call, followed
\* up to the first call that fails or flushes a collection.
NextFaulty ==
  /\ last.ok /\ last.op # "flushCollection"
  /\ (CreateRecordsFaulty \/ DeleteRecordsFaulty \/ FlushCollectionCall)

SpecFaulty == InitData /\ [][NextFaulty]_vars

\* One registered builder with no schemas and no queries yet.
InitOwn ==
  /\ InitStore
  /\ schemas = [s \in SchemaIds |->
                  IF s \in UserSchemaIds THEN "owned" ELSE "none"]
  /\ builders = [d \in Dids |->
                   IF d \in GuardDids THEN [NoBuilder(d) EXCEPT !.exists = TRUE]
                   ELSE NoBuilder(d)]
  /\ queries = [q \in QueryIds |-> "none"]

NextOwn ==
  \/ EnforceSchemaOwnershipCall
  \/ EnforceQueryOwnershipCall
  \/ EnforceDataOwnershipCall
  \/ BuilderAddSchema
  \/ BuilderRemoveSchema
  \/ BuilderAddQuery
  \/ BuilderRemoveQuery
  \/ UserUpsertCall
  \/ UserRemoveDataCall

SpecOwn == InitOwn /\ [][NextOwn]_vars

\* Two registered builders, each owning one query; the commit-reveal schema is
\* absent (the account not provisioned yet) or present with either
\* documentType; the node's DID is not a registered builder.
InitCmd ==
  /\ InitStore
  /\ schemas \in {s \in [SchemaIds -> {"none", "owned", "standard"}] :
                    /\ s["S1"] = "owned"
                    /\ s["S2"] = "owned"
                    /\ s[UnknownSchemaId] = "none"}
  /\ builders = [d \in Dids |->
                   IF d \in OwnerDids THEN [NoBuilder(d) EXCEPT !.exists = TRUE]
                   ELSE NoBuilder(d)]
  /\ queries = [q \in QueryIds |->
                  IF q = CommitRevealQueryId THEN "none"
                  ELSE IF q = 1 THEN "did:nil:a" ELSE "did:nil:b"]

NextCmd == StoreSecretCommand \/ StartQueryExecutionCommand

SpecCmd == InitCmd /\ [][NextCmd]_vars

\* The commit-reveal schema is provisioned, owned or standard; deliveries of
\* StoreSecret arrive at least once and their handlers interleave.
InitDeliver ==
  /\ InitStore
  /\ schemas \in {s \in [SchemaIds -> {"none", "owned", "standard"}] :
                    /\ s["S1"] = "owned"
                    /\ s["S2"] = "owned"
                    /\ s[UnknownSchemaId] = "none"
                    /\ s[CommitRevealSchemaId] # "none"}
  /\ builders = [d \in Dids |-> NoBuilder(d)]
  /\ queries = [q \in QueryIds |-> "none"]

NextDeliver ==
  \/ DeliverStoreSecret
  \/ ResolveStep
  \/ InsertStep
  \/ UpsertStep
  \/ EmitStep
  \/ FailStep

SpecDeliver == InitDeliver /\ [][NextDeliver]_vars

\* A node not provisioned yet: no builder is registered, the commit-reveal
\* schema and query are absent, the cache is cold.
InitDir ==
  /\ InitStore
  /\ schemas = [s \in SchemaIds |-> IF s \in UserSchemaIds THEN "owned" ELSE "none"]
  /\ builders = [d \in Dids |-> NoBuilder(d)]
  /\ queries = [q \in QueryIds |-> "none"]

NextDir ==
  \/ FindCall
  \/ FindByIdWithCacheCall
  \/ CreateBuilderCall
  \/ RemoveCall
  \/ UpdateProfileCall
  \/ EnsureNilcommAccountRun

SpecDir == InitDir /\ [][NextDir]_vars

\* A cold cache over a store that holds the builder or not; no call in flight.
InitFlight ==
  /\ InitStore
  /\ schemas = [s \in SchemaIds |-> IF s \in UserSchemaIds THEN "owned" ELSE "none"]
  /\ builders \in {[d \in Dids |->
                      IF d \in held
                      THEN [NoBuilder(d) EXCEPT !.exists = TRUE, !.name = n]
                      ELSE NoBuilder(d)] : held \in SUBSET DirDids, n \in Names}
  /\ queries = [q \in QueryIds |-> "none"]

NextFlight ==
  \E k \in FlightSlots :
    \/ FindStart(k)
    \/ FindRead(k)
    \/ FindSet(k)
    \/ DeleteStart(k)
    \/ DeleteOne(k)
    \/ DeleteEvict(k)

SpecFlight == InitFlight /\ [][NextFlight]_vars

\* An empty store with the owned schema S1 registered; no call in flight.
InitCalls ==
  /\ InitStore
  /\ schemas = [s \in SchemaIds |-> IF s \in SharedSchemas THEN "owned" ELSE "none"]
  /\ builders = [d \in Dids |-> NoBuilder(d)]
  /\ queries = [q \in QueryIds |-> "none"]

NextCalls ==
  \E k \in CallSlots :
    \/ CallCreate(k)
    \/ CallInsert(k)
    \/ CallUpsert(k)
    \/ CallDelete(k)
    \/ CallFindMany(k)
    \/ CallRemoveData(k)
    \/ CallDeleteMany(k)

SpecCalls == InitCalls /\ [][NextCalls]_vars

\* One registered builder; schemas S1 and S2 are registered or not.
InitIdx ==
  /\ InitStore
  /\ schemas \in {s \in [SchemaIds -> {"none", "owned", "standard"}] :
                    /\ s[UnknownSchemaId] = "none"
                    /\ s[CommitRevealSchemaId] = "none"
                    /\ s["S1"] # "standard"}
  /\ builders = [d \in Dids |->
                   IF d \in GuardDids
                   THEN [NoBuilder(d) EXCEPT !.exists = TRUE,
                           !.schemas = {s \in UserSchemaIds : schemas[s] # "none"}]
                   ELSE NoBuilder(d)]
  /\ queries = [q \in QueryIds |-> "none"]

NextIdx ==
  \/ CreateIndexCall
  \/ DropIndexCall
  \/ GetCollectionStatsCall
  \/ SchemaAdded
  \/ SchemaDeleted

SpecIdx == InitIdx /\ [][NextIdx]_vars

Init == InitData

Next ==
  \/ CreateRecordsFaulty
  \/ DeleteRecordsFaulty
  \/ FlushCollectionCall
  \/ NextOwn
  \/ NextCmd
  \/ NextDeliver
  \/ NextDir
  \/ NextIdx
  \/ NextFlight
  \/ NextCalls

Spec == Init /\ [][Next]_vars

TypeOK ==
  /\ \A s \in SchemaIds : \A d \in coll[s] : d.id \in Ids /\ d.owner \in Dids
  /\ WithinBound(users)

\* ------------------------------------------------------------ data engine claims
CallSchemas == UserSchemaIds \cup {UnknownSchemaId}

Ref(sid, i) == [schema |-> sid, id |-> i]

\* The number of references a UserDocument holds.
RECURSIVE SumOver(_, _)
SumOver(data, rs) ==
  IF rs = {} THEN 0
  ELSE LET r == CHOOSE x \in rs : TRUE IN data[r] + SumOver(data, rs \ {r})

RefCount(u, o) == SumOver(u[o].data, Refs)

\* Every owned document has a reference with its owner, and every reference
\* points to a document of that owner in that schema's collection.
ConsistentRefs ==
  /\ \A sid \in SchemaIds : schemas[sid] = "owned" =>
       \A d \in coll[sid] : users[d.owner].data[Ref(sid, d.id)] >= 1
  /\ \A o \in Dids : \A r \in Refs : users[o].data[r] >= 1 =>
       \E d \in coll[r.schema] : d.id = r.id /\ d.owner = o

\* C1: after any sequence of createRecords and deleteRecords calls against a
\* store that does not fail, every document of an owned schema has a matching
\* reference in its owner's UserDocument and every reference points to a
\* document that exists.
C1_OwnedDocumentsHaveReferences == ConsistentRefs

\* C2: a createRecords call whose schema resolves and whose batch holds at
\* least one record that fails validation returns DataValidationError, inserts
\* no document and changes no UserDocument, whatever the other records are.
C2_ValidationAllOrNothing ==
  \A sid \in CallSchemas, owner \in OwnerDids, data \in Batches, f \in CreateFaults :
    LET r == CreateRecords(St, [schemaId |-> sid, owner |-> owner, data |-> data], f)
    IN (SchemasFindOne(sid, f).ok /\ \E i \in DOMAIN data : ~data[i].valid) =>
         /\ ~r.ok
         /\ r.err = "DataValidationError"
         /\ r.created = <<>>
         /\ r.coll = coll
         /\ r.users = users

\* A batch of two records, one valid and one not, was rejected while the
\* store already held documents.
C2_Witness ==
  /\ last.op = "createRecords"
  /\ last.n = 2
  /\ last.invalid = 1
  /\ last.err = "DataValidationError"
  /\ \E sid \in UserSchemaIds : coll[sid] # {}

\* C3: a successful createRecords adds exactly Len(records) documents to the
\* schema's backing collection and returns their ids; for an owned schema the
\* owner's UserDocument exists afterwards and its reference list has grown by
\* exactly one entry per returned id, and nothing else changes.
C3_CreateAddsExactlyLen ==
  \A sid \in CallSchemas, owner \in OwnerDids, data \in Batches, f \in CreateFaults :
    LET r == CreateRecords(St, [schemaId |-> sid, owner |-> owner, data |-> data], f)
        ids == {data[i].id : i \in DOMAIN data}
    IN r.ok =>
         /\ r.created = [i \in DOMAIN data |-> data[i].id]
         /\ Cardinality(r.coll[sid]) = Cardinality(coll[sid]) + Len(data)
         /\ r.coll[sid] \ coll[sid] = {[id |-> i, owner |-> owner] : i \in ids}
         /\ coll[sid] \subseteq r.coll[sid]
         /\ \A other \in SchemaIds \ {sid} : r.coll[other] = coll[other]
         /\ \A o \in Dids \ {owner} : r.users[o] = users[o]
         /\ IF schemas[sid] = "owned"
            THEN /\ r.users[owner].exists
                 /\ RefCount(r.users, owner) = RefCount(users, owner) + Len(data)
                 /\ \A i \in DOMAIN r.created :
                      r.users[owner].data[Ref(sid, r.created[i])]
                        = users[owner].data[Ref(sid, r.created[i])] + 1
            ELSE r.users = users

\* Successful two-record creates were seen on an owned schema whose owner had
\* no UserDocument references left over, and the collection holds both.
C3_Witness ==
  /\ last.op = "createRecords"
  /\ last.ok
  /\ last.n = 2
  /\ Len(last.created) = 2
  /\ \E o \in OwnerDids :
       /\ users[o].exists
       /\ \A i \in DOMAIN last.created :
            /\ users[o].data[Ref("S1", last.created[i])] = 1
            /\ [id |-> last.created[i], owner |-> o] \in coll["S1"]

\* C4: a successful deleteRecords whose filter matches N documents removes
\* exactly those N documents and their owners' references to them; references
\* to unmatched documents and references of other owners are unchanged.
C4_DeleteRemovesExactlyMatched ==
  \A sid \in CallSchemas, filter \in Filters :
    \A order \in Orders({d.owner : d \in Matching(coll, sid, filter)}) :
      LET r == DeleteRecords(St, [schema |-> sid, filter |-> filter], order, NoFault)
          m == Matching(coll, sid, filter)
      IN r.ok =>
           /\ r.deletedCount = Cardinality(m)
           /\ r.coll[sid] = coll[sid] \ m
           /\ \A other \in SchemaIds \ {sid} : r.coll[other] = coll[other]
           /\ \A o \in Dids : \A ref \in Refs :
                r.users[o].data[ref] =
                  IF ref.schema = sid /\ \E d \in m : d.id = ref.id /\ d.owner = o
                  THEN 0
                  ELSE users[o].data[ref]

\* C5: on an owned schema, createRecords of one record for owner B followed by
\* deleteRecords of the created id returns deletedCount = 1 and leaves the
\* collections and B's reference list as they were before the create.
C5_CreateDeleteRoundTrip ==
  \A sid \in UserSchemaIds, b \in OwnerDids, i \in Ids :
    LET r1 == CreateRecords(St, [schemaId |-> sid, owner |-> b,
                                 data |-> <<[id |-> i, valid |-> TRUE]>>], NoFault)
        r2 == DeleteRecords([coll |-> r1.coll, users |-> r1.users],
                            [schema |-> sid, filter |-> {r1.created[1]}], <<b>>, NoFault)
    IN (schemas[sid] = "owned" /\ r1.ok) =>
         /\ r2.ok
         /\ r2.deletedCount = 1
         /\ r2.coll = coll
         /\ r2.users[b].data = users[b].data
         /\ r2.users[b].data[Ref(sid, i)] = 0

\* ------------------------------------------------------------ ownership claims
\* C6: each ownership predicate passes exactly when the resource is in the
\* subject's set and otherwise fails with ResourceAccessDeniedError: the schema
\* check iff the schema id is in builder.schemas, the query check iff the query
\* id is in builder.queries, the data check iff user.data holds an entry with
\* that document id and that schema; so the verdict follows every addition and
\* removal of the id.
C6_OwnershipIffMember ==
  /\ \A b \in Dids : \A sid \in SchemaIds :
       LET r == EnforceSchemaOwnership(builders[b], sid)
       IN /\ r.ok <=> sid \in builders[b].schemas
          /\ ~r.ok => r.err = "ResourceAccessDeniedError"
  /\ \A b \in Dids : \A q \in Ids :
       LET r == EnforceQueryOwnership(builders[b], q)
       IN /\ r.ok <=> q \in builders[b].queries
          /\ ~r.ok => r.err = "ResourceAccessDeniedError"
  /\ \A o \in Dids : \A i \in Ids : \A sid \in SchemaIds :
       LET r == EnforceDataOwnership(UserDocument(o), i, sid)
       IN /\ r.ok <=> (Ref(sid, i) \in Refs /\ users[o].data[Ref(sid, i)] >= 1)
          /\ ~r.ok => r.err = "ResourceAccessDeniedError"

\* The data check was denied for a document id the user holds under another
\* schema only.
C6_Witness ==
  /\ guard.fn = "data"
  /\ ~guard.ok
  /\ guard.err = "ResourceAccessDeniedError"
  /\ guard.schema \in UserSchemaIds
  /\ users[guard.subject].data[Ref(guard.schema, guard.id)] = 0
  /\ \E other \in UserSchemaIds \ {guard.schema} :
       users[guard.subject].data[Ref(other, guard.id)] >= 1


\* ------------------------------------------------------------ command claims
SuccessType(cmd) ==
  IF cmd = "StoreSecret" THEN "SecretStored" ELSE "QueryExecutionCompleted"

FailureType(cmd) ==
  IF cmd = "StoreSecret" THEN "StoreSecretFailed" ELSE "QueryExecutionFailed"

\* The events of the last command the bus accepted.
Published == {handled.attempts[i].event :
                i \in {j \in DOMAIN handled.attempts : handled.attempts[j].accepted}}

\* The bus did not refuse the failure event.
FailureEventAccepted ==
  \A i \in DOMAIN handled.attempts :
    handled.attempts[i].event.type = FailureType(handled.cmd) =>
      handled.attempts[i].accepted

\* C7: every handler invocation whose effect completes, the bus accepting the
\* failure event, has published exactly one terminal event for its mappingId:
\* the success event or the failure event.
C7_OneTerminalEventPerMappingId ==
  (handled.outcome \in {"ok", "fail"} /\ FailureEventAccepted) =>
    Cardinality({e \in Published :
                   /\ e.mappingId = handled.mappingId
                   /\ e.type \in {SuccessType(handled.cmd),
                                  FailureType(handled.cmd)}}) = 1

\* C8: every event the command processor publishes carries the mappingId of
\* the command that triggered it.
C8_EventsCarryMappingId ==
  handled.cmd # "none" => \A e \in Published : e.mappingId = handled.mappingId

\* C9: every error raised at any step of handling a command, the derivation of
\* the requester's DID included, is converted into the command's failure
\* event, published exactly once (the bus accepting it).
C9_EveryErrorPublishesFailure ==
  (handled.outcome \in {"fail", "throw"} /\ FailureEventAccepted) =>
    Cardinality({i \in DOMAIN handled.attempts :
                   /\ handled.attempts[i].accepted
                   /\ handled.attempts[i].event.type = FailureType(handled.cmd)}) = 1

\* C10: when a handler fails, the error returned to its caller is the original
\* pipeline error, also when publishing the failure event fails.
C10_OriginalErrorReturned ==
  handled.outcome \in {"fail", "throw"} => handled.err = handled.pipelineErr


\* What the environment can decide during one StoreSecret.
StoreSecretEnvs == [valid : BOOLEAN, fault : StoreSecretFaults, refusal : Refusals]

\* C11: a StoreSecret whose share cannot be decrypted creates no data record
\* and no reference (createRecords is not reached, whatever the store would
\* have answered), hands the bus exactly one event, StoreSecretFailed with the
\* command's mappingId and a non-empty cause, and no SecretStored.
C11_UndecryptableShareStoresNothing ==
  \A m \in Ids, env \in StoreSecretEnvs :
    LET r == ProcessDappStoreSecret(St, [mappingId |-> m, share |-> "garbled"], env)
    IN /\ r.outcome = "fail"
       /\ r.coll = coll
       /\ r.users = users
       /\ Len(r.attempts) = 1
       /\ r.attempts[1].event.type = "StoreSecretFailed"
       /\ r.attempts[1].event.mappingId = m
       /\ r.attempts[1].event.cause # ""
       /\ r.attempts[1].accepted = (env.refusal = "")

\* A StoreSecret failed at decryption and its failure event was published,
\* in a state where the commit-reveal collection could have taken the record.
C11_Witness ==
  /\ handled.cmd = "StoreSecret"
  /\ handled.pipelineErr = "Share decryption failed"
  /\ Len(handled.attempts) = 1
  /\ handled.attempts[1].accepted
  /\ schemas[CommitRevealSchemaId] # "none"
  /\ ~\E d \in coll[CommitRevealSchemaId] : d.id = handled.mappingId


\* The record a StoreSecret for mappingId m stores.
SecretRecord(m) == [id |-> m, owner |-> NodeDid]

\* C12: a StoreSecret whose share decrypts changes the collections by at most
\* the one record keyed by mappingId and owned by the node's DID, in the
\* commit-reveal collection; when it succeeds it has inserted exactly that
\* record; and SecretStored{mappingId} is handed to the bus only by an
\* invocation whose insert succeeded.
C12_SecretStoredAfterInsert ==
  \A m \in Ids, env \in StoreSecretEnvs :
    LET r == ProcessDappStoreSecret(St, [mappingId |-> m, share |-> "sealed"], env)
        added == r.coll[CommitRevealSchemaId] \ coll[CommitRevealSchemaId]
        inserted == added = {SecretRecord(m)}
    IN /\ \A s \in DOMAIN coll : s # CommitRevealSchemaId => r.coll[s] = coll[s]
       /\ coll[CommitRevealSchemaId] \subseteq r.coll[CommitRevealSchemaId]
       /\ added \subseteq {SecretRecord(m)}
       /\ r.outcome = "ok" => inserted
       /\ \A i \in DOMAIN r.attempts :
            r.attempts[i].event.type = "SecretStored" =>
              /\ inserted
              /\ r.attempts[i].event.mappingId = m
              /\ i = 1

\* A StoreSecret succeeded: its record is in the commit-reveal collection and
\* SecretStored was published.
C12_Witness ==
  /\ handled.cmd = "StoreSecret"
  /\ handled.outcome = "ok"
  /\ SecretRecord(handled.mappingId) \in coll[CommitRevealSchemaId]
  /\ Len(handled.attempts) = 1
  /\ handled.attempts[1].event = Event("SecretStored", handled.mappingId, "")
  /\ handled.attempts[1].accepted


\* C13: whatever number of StoreSecret invocations for one mappingId run, one
\* after the other or interleaved, the commit-reveal collection never holds
\* more than one record with that id, and a share once stored under the id is
\* neither replaced nor joined by another.
C13_StoreSecretRedeliveryKeepsFirstShare ==
  [][\A m \in Ids :
       /\ Cardinality({d \in coll'[CommitRevealSchemaId] : d.id = m}) <= 1
       /\ Len(secrets'[m]) <= 1
       /\ secrets[m] # <<>> => secrets'[m] = secrets[m]]_vars

\* Two invocations for the same mappingId with different shares have both
\* ended: one stored its share and published SecretStored, the other was
\* rejected by the store and published StoreSecretFailed.
C13_Witness ==
  \E k1 \in Slots, k2 \in Slots :
    /\ k1 # k2
    /\ deliveries[k1].pc = "done" /\ deliveries[k2].pc = "done"
    /\ deliveries[k1].mappingId = deliveries[k2].mappingId
    /\ deliveries[k1].secret # deliveries[k2].secret
    /\ deliveries[k1].event = "SecretStored"
    /\ deliveries[k2].event = "StoreSecretFailed"
    /\ deliveries[k2].err = "DatabaseError"
    /\ secrets[deliveries[k1].mappingId] = <<deliveries[k1].secret>>


\* What the environment can decide during one StartQueryExecution.
QueryEnvs == [fault : QueryFaults, refusal : Refusals]

\* The queries the queries collection holds for a builder.
QueriesOf(did) == {q \in QueryIds : queries[q] = did}

\* C14: StartQueryExecution runs the commit-reveal aggregation on no query but
\* the requested one, and only when it is among the queries of the builder
\* named by ownerPk; when that builder is found and the requested query is not
\* among its queries (it is absent, or another builder's), the handler fails
\* with DocumentNotFoundError, runs no aggregation and hands the bus one
\* event, QueryExecutionFailed.
C14_AggregationOnlyForOwnQuery ==
  \A m \in Ids, q \in Ids, pk \in OwnerPks, env \in QueryEnvs :
    LET r == ProcessDappStartQueryExecution(
               [mappingId |-> m, queryId |-> q, ownerPk |-> pk], env)
        did == DidOf(DidText(pk))
    IN /\ r.aggregated \subseteq ({q} \cap QueriesOf(did))
       /\ ( /\ DidSchemaParse(DidText(pk)).ok
            /\ builders[did].exists
            /\ env.fault.step \notin {"findBuilder", "findQueries"}
            /\ q \notin QueriesOf(did) ) =>
              /\ r.outcome = "fail"
              /\ r.pipelineErr = "DocumentNotFoundError"
              /\ r.aggregated = {}
              /\ Len(r.attempts) = 1
              /\ r.attempts[1].event.type = "QueryExecutionFailed"
              /\ r.attempts[1].event.cause = "DocumentNotFoundError"
              /\ r.attempts[1].accepted = (env.refusal = "")

\* Builder a asked for the execution of builder b's query: the command failed
\* with DocumentNotFoundError and QueryExecutionFailed was published.
C14_Witness ==
  /\ handled.cmd = "StartQueryExecution"
  /\ handled.requester = "a"
  /\ builders["did:nil:a"].exists
  /\ queries[handled.queryId] = "did:nil:b"
  /\ handled.outcome = "fail"
  /\ handled.pipelineErr = "DocumentNotFoundError"
  /\ Len(handled.attempts) = 1
  /\ handled.attempts[1].event.type = "QueryExecutionFailed"
  /\ handled.attempts[1].accepted


\* ------------------------------------------------------------ bootstrap claims
AccountParts == {"builder", "schema", "query"}

\* The parts of the reserved account a store holds.
AccountIn(st) ==
  {p \in AccountParts :
     \/ p = "builder" /\ st.builders[NilcommDid].exists
     \/ p = "schema" /\ st.schemas[CommitRevealSchemaId] # "none"
     \/ p = "query" /\ st.queries[CommitRevealQueryId] # "none"}

StoreOf(r) == [builders |-> r.builders, schemas |-> r.schemas, queries |-> r.queries]

\* C15: from a store without the reserved account, with a store that answers,
\* two runs of ensureNilcommAccount in sequence leave the reserved builder
\* holding the commit-reveal schema and the commit-reveal query, the first run
\* having created all three and the second having created nothing and left
\* the store as the first left it.
C15_EnsureNilcommAccountIdempotent ==
  \A documentType \in {"owned", "standard"} :
    LET env == [fault |-> NoFault, documentType |-> documentType]
        first == EnsureNilcommAccount(BootSt, env)
        second == EnsureNilcommAccount(StoreOf(first), env)
    IN AccountIn(BootSt) = {} =>
         /\ first.outcome = "ok"
         /\ first.created = AccountParts
         /\ second.outcome = "ok"
         /\ second.created = {}
         /\ StoreOf(second) = StoreOf(first)
         /\ AccountIn(StoreOf(second)) = AccountParts
         /\ second.builders[NilcommDid].schemas = {CommitRevealSchemaId}
         /\ second.builders[NilcommDid].queries = {CommitRevealQueryId}
         /\ second.schemas[CommitRevealSchemaId] = documentType
         /\ second.queries[CommitRevealQueryId] = NilcommDid

\* The bootstrap ran twice: an earlier run provisioned the whole account and
\* the last run found it and created nothing.
C15_Witness ==
  /\ boot.runs = 2
  /\ boot.outcome = "ok"
  /\ boot.created = {}
  /\ boot.provisioned = AccountParts
  /\ AccountIn(BootSt) = AccountParts


\* C16: a run of ensureNilcommAccount creates the builder, the schema or the
\* query, or changes the store at all, only when its lookup of the reserved
\* builder failed with DocumentNotFoundError; when the lookup fails with
\* another error the run ends with that error and the store is as it was.
C16_ProvisionOnlyOnNotFound ==
  \A env \in BootEnvs :
    LET r == EnsureNilcommAccount(BootSt, env)
    IN /\ (r.created # {} \/ StoreOf(r) # BootSt) =>
            /\ r.lookup = "DocumentNotFoundError"
            /\ ~builders[NilcommDid].exists
            /\ env.fault.step # "findBuilder"
       /\ env.fault.step = "findBuilder" =>
            /\ r.lookup = env.fault.err
            /\ r.outcome = "fail"
            /\ r.err = env.fault.err
            /\ r.created = {}
            /\ StoreOf(r) = BootSt

\* A run whose lookup failed with CollectionNotFoundError ended with that
\* error, on a store without the account, which it left without the account.
C16_Witness ==
  /\ boot.runs >= 1
  /\ boot.lookup = "CollectionNotFoundError"
  /\ boot.outcome = "fail"
  /\ boot.err = "CollectionNotFoundError"
  /\ boot.created = {}
  /\ AccountIn(BootSt) = {}


\* C17: once a run of ensureNilcommAccount has ended, successfully or failed
\* at any creation step, and after any later runs, the reserved builder, the
\* commit-reveal schema and the commit-reveal query all exist or none does.
C17_ProvisioningAllOrNothing ==
  boot.runs >= 1 => AccountIn(BootSt) \in {{}, AccountParts}


\* ------------------------------------------------------------ directory claims
\* The lookups by DID the builder directory offers.
Lookups == {"find", "findByIdWithCache"}

Lookup(kind, dst, did, f) ==
  IF kind = "find" THEN Find(dst, did, f) ELSE FindByIdWithCache(dst, did, f)

\* C18: with a cold cache, the first lookup of an existing builder by DID
\* performs exactly one store read and fills the cache, and the next lookup of
\* the same DID performs no store read.
C18_FindIsReadThroughCached ==
  \A d \in DirDids, kind \in Lookups :
    LET first == Lookup(kind, DirSt, d, NoFault)
        second == Lookup(kind, [builders |-> builders, cache |-> first.cache], d, NoFault)
    IN (builders[d].exists /\ ~cache[d].cached) =>
         /\ first.ok /\ first.reads = 1
         /\ first.cache[d] = [cached |-> TRUE, doc |-> builders[d]]
         /\ second.ok /\ second.reads = 0
         /\ second.builder = first.builder


\* C19: a delete(did) that succeeds leaves the store without a builder for the
\* DID and the cache without an entry for it, touches no other DID, and the
\* next lookup of the DID reads the store and fails with
\* DocumentNotFoundError; a delete whose store call fails leaves the cache,
\* and the store, as they were.
C19_DeleteEvictsOnSuccessOnly ==
  \A d \in DirDids, f \in DirFaults("deleteBuilder"), kind \in Lookups :
    LET r == Remove(DirSt, d, f)
        next == Lookup(kind, [builders |-> r.builders, cache |-> r.cache], d, NoFault)
    IN /\ r.ok =>
            /\ ~r.builders[d].exists
            /\ ~r.cache[d].cached
            /\ \A e \in Dids \ {d} : r.builders[e] = builders[e] /\ r.cache[e] = cache[e]
            /\ ~next.ok
            /\ next.err = "DocumentNotFoundError"
            /\ next.reads = 1
       /\ ~r.ok => r.cache = cache /\ r.builders = builders

\* A delete succeeded on a DID whose document was cached: the builder and the
\* cache entry are gone.
C19_Witness ==
  /\ dir.op = "remove"
  /\ dir.ok
  /\ dir.hit
  /\ ~builders[dir.did].exists
  /\ ~cache[dir.did].cached


\* C20: update(did, fields) changes nothing in the store but the named fields
\* of the DID's document and leaves the cache as it was: an entry cached
\* before the update is what the cached lookup returns after it, with the name
\* it had, without a store read.
C20_UpdateLeavesCacheStale ==
  \A d \in DirDids, u \in Updates, f \in DirFaults("updateBuilder") :
    LET r == UpdateProfile(DirSt, [builderId |-> d, updates |-> u], f)
        next == FindByIdWithCache([builders |-> r.builders, cache |-> r.cache],
                                  d, NoFault)
    IN /\ r.cache = cache
       /\ \A e \in Dids \ {d} : r.builders[e] = builders[e]
       /\ r.builders[d] =
            IF r.ok /\ builders[d].exists /\ u.name # "absent"
            THEN [builders[d] EXCEPT !.name = u.name]
            ELSE builders[d]
       /\ cache[d].cached =>
            /\ next.ok
            /\ next.reads = 0
            /\ next.builder = cache[d].doc

\* An update renamed a builder whose document was cached: the cache still
\* holds the document with the old name.
C20_Witness ==
  /\ dir.op = "updateProfile"
  /\ dir.ok
  /\ dir.hit
  /\ builders[dir.did].exists
  /\ builders[dir.did].name = dir.name
  /\ cache[dir.did].cached
  /\ cache[dir.did].doc.name # dir.name


\* C21: createBuilder with the node's own DID fails with DuplicateEntryError
\* and leaves the store as it was, whatever the store holds and whatever it
\* would have answered; with any other DID that has no document yet, and a
\* store that answers, it inserts one builder with that DID and name whose
\* schemas and queries are empty, and touches no other document.
C21_NodeDidReservedOthersInserted ==
  \A d \in Dids, n \in Names, f \in DirFaults("insertBuilder") :
    LET r == CreateBuilder(builders, [did |-> d, name |-> n], f)
    IN /\ d = NodeDid =>
            /\ ~r.ok
            /\ r.err = "DuplicateEntryError"
            /\ r.builders = builders
       /\ (d # NodeDid /\ ~builders[d].exists /\ f = NoFault) =>
            /\ r.ok
            /\ r.builders = [builders EXCEPT ![d] =
                               [exists |-> TRUE, id |-> d, name |-> n,
                                schemas |-> {}, queries |-> {}]]

\* A createBuilder for the node's own DID was refused as a duplicate, in a
\* store where a tenant had been registered and the node's DID has no document.
C21_Witness ==
  /\ dir.op = "createBuilder"
  /\ dir.did = NodeDid
  /\ ~dir.ok
  /\ dir.err = "DuplicateEntryError"
  /\ ~builders[NodeDid].exists
  /\ \E d \in DirDids : builders[d].exists /\ builders[d].schemas = {}


\* C22: createBuilder for a DID that already has a document in the store
\* fails with DuplicateEntryError and leaves the existing document, and the
\* rest of the store, as they were.
C22_ExistingDidFailsDuplicate ==
  \A d \in Dids \ {NodeDid}, n \in Names :
    LET r == CreateBuilder(builders, [did |-> d, name |-> n], NoFault)
    IN builders[d].exists =>
         /\ ~r.ok
         /\ r.err = "DuplicateEntryError"
         /\ r.builders = builders


\* ------------------------------------------------------------ index claims
\* C23: createIndex on a schema that has a backing collection never fails
\* with CollectionNotFoundError; when its specification conflicts with an
\* existing index of the collection (same name, other options) it fails with
\* InvalidIndexOptionsError whatever code the store rejects it with, never
\* with DatabaseError; and on a schema without a backing collection it fails
\* with CollectionNotFoundError.
C23_CreateIndexErrors ==
  \A sid \in SchemaIds, spec \in IndexSpecs, code \in ConflictCodes :
    LET r == CreateIndex(schemas, indexes, sid, spec, code)
        backed == sid \in CollectionsOf(schemas, StatsDb)
        conflicts == \E i \in indexes[sid] : i.name = spec.name /\ i # spec
    IN /\ backed => r.err # "CollectionNotFoundError"
       /\ (backed /\ conflicts) => ~r.ok /\ r.err = "InvalidIndexOptionsError"
       /\ ~backed => ~r.ok /\ r.err = "CollectionNotFoundError"


\* ------------------------------------------------------------ partial failure claims
\* C24: deleteRecords finds, then removes the owners' references, then deletes
\* the documents: a call changes a collection only after the references of
\* every matched owner to the matched documents are removed; when the removal
\* fails for an owner the call returns that error and deletes no document;
\* when the final delete fails the call returns that error, the references of
\* every matched owner are gone and the documents remain.
C24_ReferencesRemovedBeforeDocuments ==
  \A sid \in CallSchemas, filter \in Filters, f \in DeleteFaults :
    \A order \in Orders({d.owner : d \in Matching(coll, sid, filter)}) :
      LET r == DeleteRecords(St, [schema |-> sid, filter |-> filter], order, f)
          m == Matching(coll, sid, filter)
          gone == \A d \in m : r.users[d.owner].data[Ref(sid, d.id)] = 0
      IN /\ r.coll # coll => gone
         /\ (schemas[sid] # "none" /\ f.step = "removeData"
               /\ \E d \in m : d.owner = f.owner) =>
              ~r.ok /\ r.err = f.err /\ r.coll = coll
         /\ (schemas[sid] # "none" /\ f.step = "deleteMany") =>
              ~r.ok /\ r.err = f.err /\ r.coll = coll /\ gone

\* A deleteRecords call has failed and a document of the owned schema is left
\* in its collection with no reference in its owner's UserDocument.
C24_Witness ==
  /\ last.op = "deleteRecords" /\ ~last.ok /\ last.err = "DatabaseError"
  /\ \E d \in coll["S1"] : users[d.owner].data[Ref("S1", d.id)] = 0


\* C25: on an owned schema, when the insert succeeds and the upsert of the
\* owner's UserDocument then fails, createRecords returns the upsert's error,
\* the inserted records stay in the collection and no reference to them is
\* added; and no createRecords call that succeeds on an owned schema leaves a
\* created record without its owner's reference.
C25_UpsertFailureReportedAfterInsert ==
  \A sid \in CallSchemas, owner \in OwnerDids, data \in Batches, f \in CreateFaults :
    LET cmd == [schemaId |-> sid, owner |-> owner, data |-> data]
        r == CreateRecords(St, cmd, f)
        document == SchemasFindOne(sid, NoFault)
        result == DataInsert(coll, document.doc, data, owner, NoFault)
    IN schemas[sid] = "owned" =>
         /\ (f.step = "upsert" /\ (\A i \in DOMAIN data : data[i].valid) /\ result.ok) =>
              /\ ~r.ok /\ r.err = f.err
              /\ r.coll = result.coll
              /\ \A i \in DOMAIN data : \E d \in r.coll[sid] : d.id = data[i].id
              /\ r.users = users
         /\ r.ok => \A i \in DOMAIN r.created :
                      r.users[owner].data[Ref(sid, r.created[i])] >= 1

\* A createRecords call of valid records has failed with the store's error
\* and the collection of the owned schema holds as many documents as the
\* batch had records while no UserDocument holds any reference.
C25_Witness ==
  /\ last.op = "createRecords" /\ ~last.ok /\ last.err = "DatabaseError"
  /\ last.invalid = 0 /\ Cardinality(coll["S1"]) = last.n
  /\ \A o \in Dids : RefCount(users, o) = 0


\* C26: flushCollection on a schema with a collection deletes every document
\* of that collection, whatever the documents are, and changes nothing else:
\* the documents of every other schema and every UserDocument's reference
\* list, references to the flushed documents included, are what they were.
C26_FlushTouchesOneCollectionOnly ==
  \A sid \in CallSchemas, f \in FlushFaults :
    LET r == FlushCollection(St, [schema |-> sid], f)
    IN /\ r.users = users
       /\ \A other \in SchemaIds \ {sid} : r.coll[other] = coll[other]
       /\ (schemas[sid] # "none" /\ f = NoFault) =>
            r.ok /\ r.coll[sid] = {} /\ r.deletedCount = Cardinality(coll[sid])

\* A flushCollection has emptied the owned schema's collection and an owner
\* still holds a reference to one of its documents.
C26_Witness ==
  /\ last.op = "flushCollection" /\ last.ok /\ last.deletedCount >= 1
  /\ coll["S1"] = {}
  /\ \E o \in OwnerDids, i \in Ids : users[o].data[Ref("S1", i)] >= 1


\* ------------------------------------------------------------ interleaving claims
\* A cached find that missed and has returned.
MissedFind(k) ==
  flights[k].op = "find" /\ flights[k].pc = "done" /\ ~flights[k].hit

\* C27: cache misses are not de-duplicated: a cached find that started on no
\* entry performs its own store read whatever else is in flight, and when two
\* cached finds for one DID both started on no entry and both succeeded, no
\* delete being among the calls, both return the stored document and the
\* cache ends with that one document as the DID's entry.
C27_MissesNotDeduplicated ==
  /\ \A k \in FlightSlots :
       (MissedFind(k) /\ flights[k].err # "CollectionNotFoundError") =>
         flights[k].reads = 1
  /\ \A k1, k2 \in FlightSlots :
       (k1 # k2 /\ MissedFind(k1) /\ MissedFind(k2) /\ flights[k1].did = flights[k2].did
          /\ flights[k1].ok /\ flights[k2].ok
          /\ \A k \in FlightSlots : flights[k].op # "delete") =>
         /\ flights[k1].doc = builders[flights[k1].did]
         /\ flights[k2].doc = builders[flights[k1].did]
         /\ cache[flights[k1].did] = [cached |-> TRUE, doc |-> builders[flights[k1].did]]

\* Two cached finds for one DID both missed, both read the store and both
\* returned a document.
C27_Witness ==
  \E k1, k2 \in FlightSlots :
    /\ k1 # k2 /\ MissedFind(k1) /\ MissedFind(k2)
    /\ flights[k1].did = flights[k2].did
    /\ flights[k1].ok /\ flights[k2].ok
    /\ flights[k1].reads = 1 /\ flights[k2].reads = 1
    /\ \A k \in FlightSlots : flights[k].op # "delete"

\* C28: under any interleaving of a cached find for a DID that missed with a
\* delete of that DID, once both have finished the cache holds no entry for a
\* builder that is absent from the store.
C28_NoEntryForDeletedBuilder ==
  \A k1, k2 \in FlightSlots :
    (/\ MissedFind(k1)
     /\ flights[k2].op = "delete" /\ flights[k2].pc = "done"
     /\ flights[k1].did = flights[k2].did) =>
      (cache[flights[k1].did].cached => builders[flights[k1].did].exists)


\* Every data call is idle or has finished.
CallsFinished == \A k \in CallSlots : calls[k].pc \in {"idle", "done"}

\* C29: under any interleaving of the store steps of concurrent createRecords
\* and deleteRecords calls on one owned schema, with no store failure, once
\* all calls have finished no UserDocument holds a reference to a document
\* that is absent and no owned document lacks its owner's reference.
C29_InterleavedCallsKeepReferences ==
  CallsFinished =>
    \A sid \in SharedSchemas :
      /\ \A d \in coll[sid] : users[d.owner].data[Ref(sid, d.id)] >= 1
      /\ \A o \in Dids : \A i \in Ids : users[o].data[Ref(sid, i)] >= 1 =>
           \E d \in coll[sid] : d.id = i /\ d.owner = o


\* C30: the events of a StoreSecret agree with the stored state:
\* StoreSecretFailed{mappingId} is published only when no record with that
\* mappingId is in the commit-reveal collection and SecretStored{mappingId}
\* only when such a record is, also when publishing SecretStored fails after
\* the insert and when the command is delivered again after it succeeded.
C30_EventsAgreeWithStore ==
  handled.cmd = "StoreSecret" =>
    \A e \in Published :
      LET stored == \E d \in coll[CommitRevealSchemaId] : d.id = e.mappingId
      IN /\ e.type = "StoreSecretFailed" => ~stored
         /\ e.type = "SecretStored" => stored


\* ------------------------------------------------------------ absent builder claims
\* C31: remove(did) and updateProfile(did, updates) for a DID that has no
\* document in the store, the store itself not failing, fail with
\* DocumentNotFoundError and do not report success; remove in that case
\* leaves the cache as it was.
C31_AbsentBuilderIsNotFound ==
  \A d \in Dids, u \in Updates :
    LET removed == Remove(DirSt, d, NoFault)
        updated == UpdateProfile(DirSt, [builderId |-> d, updates |-> u], NoFault)
    IN ~builders[d].exists =>
         /\ ~removed.ok /\ removed.err = "DocumentNotFoundError"
         /\ removed.cache = cache
         /\ ~updated.ok /\ updated.err = "DocumentNotFoundError"

====
